---- MODULE Spec2Model ----
(***************************************************************************)
(* Plan execution core and dependency-aware step scheduler of the          *)
(* multi-agent orchestration layer.                                        *)
(*                                                                         *)
(*   - execute_dynamic_task   src/workflows/flyte_dynamic.py               *)
(*   - execute_mini_plan      src/workflows/flyte_react_planner.py         *)
(*   - execute_plan           src/utils/plan_executor.py                   *)
(*                                                                         *)
(* Python indices are kept 0-based: a step list is a function on 0..N-1.   *)
(* Python lists that are only appended to and iterated are sequences.      *)
(***************************************************************************)
EXTENDS Integers, Sequences, FiniteSets, TLC

(***************************************************************************)
(* Bounds of the model.                                                    *)
(***************************************************************************)
\* longest step list handed to a scheduler
MaxSteps == 3
\* total number of dependency entries in one step list
MaxDepEdges == 2

(***************************************************************************)
(* Values.                                                                 *)
(***************************************************************************)
\* a Python name that is not bound / a slot that holds nothing yet
NoValue == "<unset>"

\* a name that would hold a dict or an object and is not bound yet
NoRecord == [unset |-> TRUE]

\* the agents the routing chain of execute_step knows
KnownAgents == {"math", "string", "web_search", "code", "weather"}

\* the agent names a planned step is drawn from ("bogus" is no known agent)
StepAgents == {"math", "bogus"}

\* the two copies of the scheduling loop
Impls == {"dynamic", "mini"}

VARIABLES
    impl,               \* which scheduler runs
    steps,              \* planner_decision.steps / plan_steps
    completed_results,  \* Dict[int, AgentExecution] / Dict[int, Dict]
    pending_steps,      \* indices of list(enumerate(steps)) still pending
    ready_steps,        \* ready_steps of the current wave
    remaining_steps,    \* remaining_steps of the current wave
    task_state,         \* per step: the execute_step coroutine
    slot,               \* per step: the value its coroutine returned
    task_in,            \* per step: the local `task` of its coroutine
    orch_log,           \* per step_idx: the records given to logger.log
    pc,                 \* position of the orchestrating coroutine
    ret,                \* value returned by the scheduler
    exc,                \* exception that left the scheduler
    wave,               \* number of waves launched so far
    wave_of,            \* per step: the wave that launched it (0: none)
    launches            \* per step: how often execute_step was called for it

VARIABLES
    agent,              \* the agent scope execute_plan is called with
    raw_plan,           \* the text of the LLM response
    plan,               \* the decoded plan (NoRecord while unbound)
    plan_exc,           \* exception that left execute_plan
    toolset,            \* names of the tools resolved for the scope
    xpc,                \* position inside execute_plan
    step_no,            \* number of loop iterations begun
    steps_log,          \* the steps trace
    last_result,        \* result of the last successful step
    tool_name,          \* local tool_name (NoValue while unbound)
    args,               \* local args (<<>> while unbound: the handler reads [])
    caught,             \* text of the exception the handler caught
    calls,              \* per plan position: invocations of its tool
    failed_at,          \* plan position of the step that failed (0: none)
    plan_log,           \* records given to logger.log
    result              \* the dict execute_plan returns

planVars == <<agent, raw_plan, plan, plan_exc, toolset, xpc, step_no, steps_log, last_result,
              tool_name, args, caught, calls, failed_at, plan_log, result>>

schedVars == <<impl, steps, completed_results, pending_steps, ready_steps,
               remaining_steps, task_state, slot, task_in, orch_log, pc,
               ret, exc, wave, wave_of, launches>>

VARIABLE
    wf                  \* the frame of the running workflow task: its position
                        \* (pc), its parameters and locals under their names in
                        \* the source, the value it returned (ret), the
                        \* exception that left it (exc) and the tasks and
                        \* agents it awaited, in order (task_runs)

flowVars == <<wf>>

\* no workflow is running
FlowParked == wf = [workflow |-> NoValue, pc |-> "idle"]

(***************************************************************************)
(* Step lists.                                                             *)
(***************************************************************************)
NumSteps == Cardinality(DOMAIN steps)

StepIdx == DOMAIN steps

\* range(len(steps)) as a sequence
RECURSIVE RangeSeq(_)
RangeSeq(n) == IF n = 0 THEN <<>> ELSE Append(RangeSeq(n - 1), n - 1)

\* dependency lists of length k over the indices 0..n (n itself is out of range)
DepListsOfLen(n, k) ==
    {d \in [1..k -> 0..n] : \A a, b \in 1..k : a # b => d[a] # d[b]}

\* all assignments of dependency lists to the steps lo..n-1 that use at most
\* `budget` dependency entries
RECURSIVE DepAssignments(_, _, _)
DepAssignments(n, lo, budget) ==
    IF lo = n THEN {<<>>}
    ELSE UNION {
           UNION { {<<d>> \o rest : rest \in DepAssignments(n, lo + 1, budget - k)}
                   : d \in DepListsOfLen(n, k) }
           : k \in 0..budget }

\* str(i) for the small integers the model prints
Str(i) == <<"0", "1", "2", "3", "4", "5", "6", "7", "8", "9">>[i + 1]

\* sep.join(lines)
RECURSIVE Join(_, _)
Join(lines, sep) ==
    IF lines = <<>> THEN ""
    ELSE IF Len(lines) = 1 THEN lines[1]
         ELSE lines[1] \o sep \o Join(Tail(lines), sep)

\* the step lists of length n; the task text of step i names i
StepLists(n) ==
    { [i \in 0..(n - 1) |->
          [agent |-> ag[i], task |-> "task" \o Str(i), dependencies |-> da[i + 1]]]
      : ag \in [0..(n - 1) -> StepAgents],
        da \in DepAssignments(n, 0, MaxDepEdges) }

(***************************************************************************)
(* Partition of the pending steps (the for loop over pending_steps).       *)
(***************************************************************************)
\* mutant: a step counts as ready as soon as one dependency is completed
DepsSatisfiedAny(i) ==
    \/ steps[i].dependencies = <<>>
    \/ \E k \in 1..Len(steps[i].dependencies) :
          steps[i].dependencies[k] \in DOMAIN completed_results

\* mutant: a dependency only counts when its execution carries no error
DepsSatisfiedClean(i) ==
    \A k \in 1..Len(steps[i].dependencies) :
        /\ steps[i].dependencies[k] \in DOMAIN completed_results
        /\ completed_results[steps[i].dependencies[k]].error = ""

\* all(dep_idx in completed_results for dep_idx in step.dependencies)
DepsSatisfied(i) ==
    \A k \in 1..Len(steps[i].dependencies) :
        steps[i].dependencies[k] \in DOMAIN completed_results

MiniDepsSatisfied(i) ==
    \A k \in 1..Len(steps[i].dependencies) :
        steps[i].dependencies[k] \in DOMAIN completed_results

DynReady == SelectSeq(pending_steps, LAMBDA i : DepsSatisfied(i))

\* mutant: the launched steps stay in the pending list
DynRemainingAll == pending_steps

DynRemaining == SelectSeq(pending_steps, LAMBDA i : ~DepsSatisfied(i))

MiniReady == SelectSeq(pending_steps, LAMBDA i : MiniDepsSatisfied(i))

MiniRemaining == SelectSeq(pending_steps, LAMBDA i : ~MiniDepsSatisfied(i))

SeqToSet(s) == {s[k] : k \in 1..Len(s)}

(***************************************************************************)
(* execute_step: the task text and the agent's answer.                     *)
(***************************************************************************)
\* completed_results[dep_idx] raises KeyError for some dependency of step i
DepLookupFails(i) ==
    \E k \in 1..Len(steps[i].dependencies) :
        steps[i].dependencies[k] \notin DOMAIN completed_results

\* f"Step {dep_idx} ({dep_exec.agent}): {dep_exec.result_summary}"
DynDepLine(d) ==
    "Step " \o Str(d) \o " (" \o completed_results[d].agent \o "): "
        \o completed_results[d].result_summary

\* mutant: the agent is handed the bare task of the step
DynTaskPlain(i) ==
    IF DepLookupFails(i) THEN NoValue ELSE steps[i].task

\* the task handed to the agent: step.task, prefixed with one line per
\* dependency when step.dependencies is not empty; completed_results[dep_idx]
\* raises KeyError for a dependency that is no key (NoValue: no task text)
DynTask(i) ==
    IF steps[i].dependencies = <<>> THEN steps[i].task
    ELSE IF DepLookupFails(i) THEN NoValue
    ELSE "Context from previous steps:\n"
         \o Join([k \in 1..Len(steps[i].dependencies) |->
                     DynDepLine(steps[i].dependencies[k])], "\n")
         \o "\n\nYour task: " \o steps[i].task

\* f"Result from step {dep_idx}: {dep_result['observation']}"
MiniDepLine(d) ==
    "Result from step " \o Str(d) \o ": " \o completed_results[d].observation

MiniTask(i) ==
    IF steps[i].dependencies = <<>> THEN steps[i].task
    ELSE IF DepLookupFails(i) THEN NoValue
    ELSE "Context:\n"
         \o Join([k \in 1..Len(steps[i].dependencies) |->
                     MiniDepLine(steps[i].dependencies[k])], "\n")
         \o "\n\nYour task: " \o steps[i].task

\* how a call of an agent can end: a result without error, a result that
\* carries an error (execute_plan caught a failure), or an exception
\* (execute_plan raises ValueError when no plan can be extracted)
AgentOutcomes == {"ok", "error", "raise"}

\* mutant: a step with an unknown agent raises
StepOutcomesUnknownRaises(i) ==
    IF task_in[i] = NoValue THEN {"raise"}
    ELSE IF steps[i].agent \in KnownAgents THEN AgentOutcomes
    ELSE {"raise"}

\* the outcomes of execute_step for a step: the KeyError of the task text,
\* the outcomes of the agent it routes to, or the fallback for an unknown agent
StepOutcomes(i) ==
    IF task_in[i] = NoValue THEN {"raise"}
    ELSE IF steps[i].agent \in KnownAgents THEN AgentOutcomes
    ELSE {"unknown"}

\* final_result of the agent's result object: an answer to the task text the
\* agent was given, or "" when its plan failed
FinalResultOf(i, o) == IF o = "ok" THEN "out(" \o task_in[i] \o ")" ELSE ""

\* summary of WebSearchAgentResult: the LLM summary of a non-empty
\* final_result, "No results found" otherwise
WebSummaryOf(i, o) ==
    IF o = "ok" THEN "sum(" \o task_in[i] \o ")" ELSE "No results found"

\* error of the agent's result object
AgentErrorOf(i, o) == IF o = "error" THEN "plan failed" ELSE ""

\* the AgentExecution execute_step returns (flyte_dynamic.py)
DynExecution(i, o) ==
    IF steps[i].agent \in KnownAgents
    THEN [agent |-> steps[i].agent,
          task |-> steps[i].task,
          result_summary |-> IF steps[i].agent = "web_search"
                             THEN WebSummaryOf(i, o)
                             ELSE FinalResultOf(i, o),
          result_full |-> FinalResultOf(i, o),
          error |-> AgentErrorOf(i, o)]
    ELSE [agent |-> steps[i].agent,
          task |-> steps[i].task,
          result_summary |-> "",
          result_full |-> "",
          error |-> "Unknown agent: " \o steps[i].agent]

\* the dict execute_step returns (flyte_react_planner.py)
MiniExecution(i, o) ==
    [agent |-> steps[i].agent,
     task |-> steps[i].task,
     observation |-> IF steps[i].agent \in KnownAgents
                     THEN IF steps[i].agent = "web_search"
                          THEN WebSummaryOf(i, o)
                          ELSE FinalResultOf(i, o)
                     ELSE "ERROR: Unknown agent '" \o steps[i].agent \o "'"]

\* the record execute_step hands to logger.log
DynLogRecord(i, o) ==
    [step_idx |-> i,
     agent |-> steps[i].agent,
     input_task |-> task_in[i],
     output_full |-> DynExecution(i, o).result_full,
     output_summary |-> DynExecution(i, o).result_summary,
     error |-> DynExecution(i, o).error,
     dependencies |-> steps[i].dependencies]

\* execute_plan is not running
PlanParked ==
    /\ agent = NoValue
    /\ raw_plan = <<>>
    /\ plan = <<>>
    /\ plan_exc = NoValue
    /\ toolset = {}
    /\ xpc = "idle"
    /\ step_no = 0
    /\ steps_log = <<>>
    /\ last_result = NoValue
    /\ tool_name = NoValue
    /\ args = <<>>
    /\ caught = NoValue
    /\ calls = <<>>
    /\ failed_at = 0
    /\ plan_log = <<>>
    /\ result = NoRecord

(***************************************************************************)
(* The scheduling loop.                                                    *)
(***************************************************************************)
SchedInit ==
    /\ impl \in Impls
    /\ \E n \in 0..MaxSteps : steps \in StepLists(n)
    /\ completed_results = <<>>
    /\ pending_steps = RangeSeq(NumSteps)
    /\ ready_steps = <<>>
    /\ remaining_steps = <<>>
    /\ task_state = [i \in StepIdx |-> "idle"]
    /\ slot = [i \in StepIdx |-> NoRecord]
    /\ task_in = [i \in StepIdx |-> NoValue]
    /\ orch_log = [i \in StepIdx |-> <<>>]
    /\ pc = "loop"
    /\ ret = NoRecord
    /\ exc = NoValue
    /\ wave = 0
    /\ wave_of = [i \in StepIdx |-> 0]
    /\ launches = [i \in StepIdx |-> 0]
    /\ PlanParked
    /\ FlowParked

\* the coroutines gather() is given: one execute_step per ready step
Launch(ready, remaining, tasks) ==
    /\ ready_steps' = ready
    /\ remaining_steps' = remaining
    /\ task_state' = [i \in StepIdx |->
                         IF i \in SeqToSet(ready) THEN "running" ELSE task_state[i]]
    /\ task_in' = [i \in StepIdx |->
                      IF i \in SeqToSet(ready) THEN tasks[i] ELSE task_in[i]]
    /\ wave' = wave + 1
    /\ wave_of' = [i \in StepIdx |->
                      IF i \in SeqToSet(ready) THEN wave + 1 ELSE wave_of[i]]
    /\ launches' = [i \in StepIdx |->
                       IF i \in SeqToSet(ready) THEN launches[i] + 1 ELSE launches[i]]
    /\ pc' = "gather"

\* while pending_steps: ... is false
DynLoopExit ==
    /\ impl = "dynamic" /\ pc = "loop"
    /\ pending_steps = <<>>
    /\ pc' = "collect"
    /\ UNCHANGED <<flowVars, planVars, impl, steps, completed_results, pending_steps, ready_steps,
                   remaining_steps, task_state, slot, task_in, orch_log, ret,
                   exc, wave, wave_of, launches>>

\* if not ready_steps: ... break
DynStall ==
    /\ impl = "dynamic" /\ pc = "loop"
    /\ pending_steps # <<>>
    /\ DynReady = <<>>
    /\ ready_steps' = DynReady
    /\ remaining_steps' = DynRemaining
    /\ pc' = "collect"
    /\ UNCHANGED <<flowVars, planVars, impl, steps, completed_results, pending_steps, task_state,
                   slot, task_in, orch_log, ret, exc, wave, wave_of, launches>>

\* partition, then asyncio.gather(*[execute_step(idx, step) ...])
DynLaunchWave ==
    /\ impl = "dynamic" /\ pc = "loop"
    /\ pending_steps # <<>>
    /\ DynReady # <<>>
    /\ Launch(DynReady, DynRemaining, [i \in StepIdx |-> DynTask(i)])
    /\ UNCHANGED <<flowVars, planVars, impl, steps, completed_results, pending_steps, slot,
                   orch_log, ret, exc>>

\* one execute_step runs to its end: the agent answers, the record is logged
\* and the (step_idx, AgentExecution) pair is returned; or the agent raises
DynStepFinish(i, o) ==
    /\ impl = "dynamic" /\ pc = "gather"
    /\ task_state[i] = "running"
    /\ o \in StepOutcomes(i)
    /\ IF o = "raise"
       THEN /\ task_state' = [task_state EXCEPT ![i] = "raised"]
            /\ UNCHANGED <<slot, orch_log>>
       ELSE /\ task_state' = [task_state EXCEPT ![i] = "returned"]
            /\ slot' = [slot EXCEPT ![i] = DynExecution(i, o)]
            /\ orch_log' = [orch_log EXCEPT ![i] = Append(@, DynLogRecord(i, o))]
    /\ UNCHANGED <<flowVars, planVars, impl, steps, completed_results, pending_steps, ready_steps,
                   remaining_steps, task_in, pc, ret, exc, wave, wave_of, launches>>

\* mutant: the wait ends as soon as one launched step has returned
GatherDoneFirst == \E k \in 1..Len(ready_steps) : task_state[ready_steps[k]] = "returned"

\* gather() has every result: every launched coroutine has returned
GatherDone == \A k \in 1..Len(ready_steps) : task_state[ready_steps[k]] = "returned"

\* gather() re-raises the first exception of a launched coroutine
GatherFailed == \E k \in 1..Len(ready_steps) : task_state[ready_steps[k]] = "raised"

\* mutant: the results of the wave replace the map
MergedReplaces ==
    [i \in {j \in SeqToSet(ready_steps) : task_state[j] = "returned"} |-> slot[i]]

\* for step_idx, execution in results: completed_results[step_idx] = execution
Merged ==
    [i \in DOMAIN completed_results
           \cup {j \in SeqToSet(ready_steps) : task_state[j] = "returned"} |->
        IF i \in SeqToSet(ready_steps) THEN slot[i] ELSE completed_results[i]]

\* results = await gather(...); store them; pending_steps = remaining_steps
DynGatherReturn ==
    /\ impl = "dynamic" /\ pc = "gather"
    /\ ~GatherFailed
    /\ GatherDone
    /\ completed_results' = Merged
    /\ pending_steps' = remaining_steps
    /\ pc' = "loop"
    /\ UNCHANGED <<flowVars, planVars, impl, steps, ready_steps, remaining_steps, task_state, slot,
                   task_in, orch_log, ret, exc, wave, wave_of, launches>>

\* the exception of a step leaves gather() and execute_dynamic_task
DynGatherRaise ==
    /\ impl = "dynamic" /\ pc = "gather"
    /\ GatherFailed
    /\ pc' = "raised"
    /\ exc' = "ValueError"
    /\ UNCHANGED <<flowVars, planVars, impl, steps, completed_results, pending_steps, ready_steps,
                   remaining_steps, task_state, slot, task_in, orch_log, ret,
                   wave, wave_of, launches>>

\* [completed_results[i] for i in range(len(steps))] finds every index
AllCompleted == \A i \in StepIdx : i \in DOMAIN completed_results

\* mutant: every execution contributes an "agent: summary" entry
RECURSIVE FinalResultsAll(_, _)
FinalResultsAll(execs, n) ==
    IF n = 0 THEN <<>>
    ELSE Append(FinalResultsAll(execs, n - 1),
                execs[n].agent \o ": " \o execs[n].result_summary)

\* the executions with a non-empty summary and no error, as "agent: summary"
RECURSIVE FinalResults(_, _)
FinalResults(execs, n) ==
    IF n = 0 THEN <<>>
    ELSE IF execs[n].result_summary # "" /\ execs[n].error = ""
         THEN Append(FinalResults(execs, n - 1),
                     execs[n].agent \o ": " \o execs[n].result_summary)
         ELSE FinalResults(execs, n - 1)

\* the indices in the order their results were stored: by wave, then by
\* position in the step list
InsertionOrder ==
    CHOOSE p \in [1..NumSteps -> StepIdx] :
        /\ \A a, b \in 1..NumSteps : a # b => p[a] # p[b]
        /\ \A a, b \in 1..NumSteps :
              a < b => \/ wave_of[p[a]] < wave_of[p[b]]
                       \/ wave_of[p[a]] = wave_of[p[b]] /\ p[a] < p[b]

\* mutant: list(completed_results.values()), the order of insertion
DynOrderedByInsertion == [k \in 1..NumSteps |-> completed_results[InsertionOrder[k]]]

\* [completed_results[i] for i in range(len(planner_decision.steps))]
DynOrdered == [k \in 1..NumSteps |-> completed_results[k - 1]]

\* the TaskResult execute_dynamic_task returns
DynTaskResult ==
    LET execs == DynOrdered
        finals == FinalResults(execs, NumSteps)
    IN [planner_decision_summary |->
            Str(NumSteps) \o " step(s): "
                \o Join([k \in 1..NumSteps |-> steps[k - 1].agent], ", "),
        agent_executions |-> execs,
        final_result |-> IF finals # <<>> THEN Join(finals, " | ")
                         ELSE "No results"]

\* after the loop: the list in original order, the combined result, return
DynCollect ==
    /\ impl = "dynamic" /\ pc = "collect"
    /\ IF AllCompleted
       THEN /\ ret' = DynTaskResult
            /\ pc' = "returned"
            /\ exc' = exc
       ELSE /\ exc' = "KeyError"
            /\ pc' = "raised"
            /\ ret' = ret
    /\ UNCHANGED <<flowVars, planVars, impl, steps, completed_results, pending_steps, ready_steps,
                   remaining_steps, task_state, slot, task_in, orch_log, wave,
                   wave_of, launches>>

(***************************************************************************)
(* execute_mini_plan: the same loop over dicts, without a trace record.    *)
(***************************************************************************)
\* while pending_steps: ... is false
MiniLoopExit ==
    /\ impl = "mini" /\ pc = "loop"
    /\ pending_steps = <<>>
    /\ pc' = "collect"
    /\ UNCHANGED <<flowVars, planVars, impl, steps, completed_results, pending_steps, ready_steps,
                   remaining_steps, task_state, slot, task_in, orch_log, ret,
                   exc, wave, wave_of, launches>>

\* if not ready_steps: ... break
MiniStall ==
    /\ impl = "mini" /\ pc = "loop"
    /\ pending_steps # <<>>
    /\ MiniReady = <<>>
    /\ ready_steps' = MiniReady
    /\ remaining_steps' = MiniRemaining
    /\ pc' = "collect"
    /\ UNCHANGED <<flowVars, planVars, impl, steps, completed_results, pending_steps, task_state,
                   slot, task_in, orch_log, ret, exc, wave, wave_of, launches>>

\* partition, then asyncio.gather(*[execute_step(idx, step) ...])
MiniLaunchWave ==
    /\ impl = "mini" /\ pc = "loop"
    /\ pending_steps # <<>>
    /\ MiniReady # <<>>
    /\ Launch(MiniReady, MiniRemaining, [i \in StepIdx |-> MiniTask(i)])
    /\ UNCHANGED <<flowVars, planVars, impl, steps, completed_results, pending_steps, slot,
                   orch_log, ret, exc>>

\* one execute_step runs to its end and returns (step_idx, dict), or raises
MiniStepFinish(i, o) ==
    /\ impl = "mini" /\ pc = "gather"
    /\ task_state[i] = "running"
    /\ o \in StepOutcomes(i)
    /\ IF o = "raise"
       THEN /\ task_state' = [task_state EXCEPT ![i] = "raised"]
            /\ UNCHANGED slot
       ELSE /\ task_state' = [task_state EXCEPT ![i] = "returned"]
            /\ slot' = [slot EXCEPT ![i] = MiniExecution(i, o)]
    /\ UNCHANGED <<flowVars, planVars, impl, steps, completed_results, pending_steps, ready_steps,
                   remaining_steps, task_in, orch_log, pc, ret, exc, wave,
                   wave_of, launches>>

\* for step_idx, result in results: completed_results[step_idx] = result
MiniMerged ==
    [i \in DOMAIN completed_results
           \cup {j \in SeqToSet(ready_steps) : task_state[j] = "returned"} |->
        IF i \in SeqToSet(ready_steps) THEN slot[i] ELSE completed_results[i]]

\* results = await gather(...); store them; pending_steps = remaining_steps
MiniGatherReturn ==
    /\ impl = "mini" /\ pc = "gather"
    /\ ~GatherFailed
    /\ GatherDone
    /\ completed_results' = MiniMerged
    /\ pending_steps' = remaining_steps
    /\ pc' = "loop"
    /\ UNCHANGED <<flowVars, planVars, impl, steps, ready_steps, remaining_steps, task_state, slot,
                   task_in, orch_log, ret, exc, wave, wave_of, launches>>

\* the exception of a step leaves gather() and execute_mini_plan
MiniGatherRaise ==
    /\ impl = "mini" /\ pc = "gather"
    /\ GatherFailed
    /\ pc' = "raised"
    /\ exc' = "ValueError"
    /\ UNCHANGED <<flowVars, planVars, impl, steps, completed_results, pending_steps, ready_steps,
                   remaining_steps, task_state, slot, task_in, orch_log, ret,
                   wave, wave_of, launches>>

\* [completed_results[i] for i in range(len(plan_steps))] finds every index
MiniAllCompleted == \A i \in StepIdx : i \in DOMAIN completed_results

\* [completed_results[i] for i in range(len(plan_steps))]
MiniOrdered == [k \in 1..NumSteps |-> completed_results[k - 1]]

\* return [completed_results[i] for i in range(len(plan_steps))]
MiniCollect ==
    /\ impl = "mini" /\ pc = "collect"
    /\ IF MiniAllCompleted
       THEN /\ ret' = [results |-> MiniOrdered]
            /\ pc' = "returned"
            /\ exc' = exc
       ELSE /\ exc' = "KeyError"
            /\ pc' = "raised"
            /\ ret' = ret
    /\ UNCHANGED <<flowVars, planVars, impl, steps, completed_results, pending_steps, ready_steps,
                   remaining_steps, task_state, slot, task_in, orch_log, wave,
                   wave_of, launches>>

SchedNext ==
    \/ DynLoopExit
    \/ DynStall
    \/ DynLaunchWave
    \/ \E i \in StepIdx, o \in AgentOutcomes \cup {"unknown"} : DynStepFinish(i, o)
    \/ DynGatherReturn
    \/ DynGatherRaise
    \/ DynCollect
    \/ MiniLoopExit
    \/ MiniStall
    \/ MiniLaunchWave
    \/ \E i \in StepIdx, o \in AgentOutcomes \cup {"unknown"} : MiniStepFinish(i, o)
    \/ MiniGatherReturn
    \/ MiniGatherRaise
    \/ MiniCollect

vars == <<planVars, schedVars, flowVars>>

SchedSpec == SchedInit /\ [][SchedNext]_vars

\* the runs of the two loops over the step lists all of whose steps name an
\* agent the routing chain knows
WaveInit ==
    /\ SchedInit
    /\ \A i \in StepIdx : steps[i].agent \in KnownAgents

WaveSpec == WaveInit /\ [][SchedNext]_vars

\* the ways execute_step returns a value: the agent's result without or
\* with an error, or the fallback for an unknown agent
InBandOutcomes == {"ok", "error", "unknown"}

\* the two loops in runs in which no agent call raises
InBandNext ==
    \/ DynLoopExit
    \/ DynStall
    \/ DynLaunchWave
    \/ \E i \in StepIdx, o \in InBandOutcomes : DynStepFinish(i, o)
    \/ DynGatherReturn
    \/ DynCollect
    \/ MiniLoopExit
    \/ MiniStall
    \/ MiniLaunchWave
    \/ \E i \in StepIdx, o \in InBandOutcomes : MiniStepFinish(i, o)
    \/ MiniGatherReturn
    \/ MiniCollect

InBandSpec == SchedInit /\ [][InBandNext]_vars

(***************************************************************************)
(* execute_plan: sequential execution of a decoded plan.                   *)
(***************************************************************************)
\* longest plan
MaxPlanLen == 3

\* Python values: None, an int, a str
NoneV == [t |-> "none", v |-> "None"]

IntV(n) == [t |-> "int", v |-> n]

StrV(x) == [t |-> "str", v |-> x]

\* str(n) for n >= 0
RECURSIVE IntStr(_)
IntStr(n) == IF n < 10 THEN Str(n) ELSE IntStr(n \div 10) \o Str(n % 10)

\* str(a)
PyStr(a) == IF a.t = "int" THEN IntStr(a.v) ELSE a.v

\* s.lower(), on the strings the model uses
Lower(x) ==
    IF x \in {"previous", "Previous", "PREVIOUS"} THEN "previous"
    ELSE IF x = "None" THEN "none"
    ELSE x

\* mutant: only the exact lower-case literal is the sentinel
IsSentinelExact(a) == PyStr(a) = "previous"

\* str(a).lower() == "previous"
IsSentinel(a) == Lower(PyStr(a)) = "previous"

\* [last_result if str(a).lower() == "previous" else a for a in args]
Substitute(as, last) ==
    [k \in 1..Len(as) |-> IF IsSentinel(as[k]) THEN last ELSE as[k]]

\* the per-agent registry and the global registry built by the @tool
\* decorators of tools/math_tools.py and tools/string_tools.py
MathTools == {"add", "multiply", "power"}

StringTools == {"word_count", "letter_count"}

agent_tools == [math |-> MathTools, string |-> StringTools]

tool_registry == MathTools \cup StringTools

\* mutant: a scope that is no key of agent_tools resolves no tool
ToolsetStrict(scope) ==
    IF scope \in DOMAIN agent_tools THEN agent_tools[scope] ELSE {}

\* agent_tools.get(agent, tool_registry)
Toolset(scope) ==
    IF scope \in DOMAIN agent_tools THEN agent_tools[scope] ELSE tool_registry

\* type(a).__name__
TypeName(a) ==
    IF a.t = "int" THEN "int" ELSE IF a.t = "str" THEN "str" ELSE "NoneType"

\* a + b of tools/math_tools.py add, or the TypeError Python raises
Add(as) ==
    IF Len(as) = 0
    THEN [ok |-> FALSE, value |-> NoneV,
          text |-> "add() missing 2 required positional arguments: 'a' and 'b'"]
    ELSE IF Len(as) = 1
    THEN [ok |-> FALSE, value |-> NoneV,
          text |-> "add() missing 1 required positional argument: 'b'"]
    ELSE IF Len(as) > 2
    THEN [ok |-> FALSE, value |-> NoneV,
          text |-> "add() takes 2 positional arguments but "
                     \o IntStr(Len(as)) \o " were given"]
    ELSE IF as[1].t = "int" /\ as[2].t = "int"
    THEN [ok |-> TRUE, value |-> IntV(as[1].v + as[2].v), text |-> ""]
    ELSE IF as[1].t = "str" /\ as[2].t = "str"
    THEN [ok |-> TRUE, value |-> StrV(as[1].v \o as[2].v), text |-> ""]
    ELSE IF as[1].t = "str"
    THEN [ok |-> FALSE, value |-> NoneV,
          text |-> "can only concatenate str (not \"" \o TypeName(as[2])
                     \o "\") to str"]
    ELSE [ok |-> FALSE, value |-> NoneV,
          text |-> "unsupported operand type(s) for +: '" \o TypeName(as[1])
                     \o "' and '" \o TypeName(as[2]) \o "'"]

\* len(s.split()) on the strings the model uses: "two words" holds one
\* blank, every other string none
Words(x) == IF x = "" THEN 0 ELSE IF x = "two words" THEN 2 ELSE 1

\* len(s.split()) of tools/string_tools.py word_count, or the error Python
\* raises
WordCount(as) ==
    IF Len(as) = 0
    THEN [ok |-> FALSE, value |-> NoneV,
          text |-> "word_count() missing 1 required positional argument: 's'"]
    ELSE IF Len(as) > 1
    THEN [ok |-> FALSE, value |-> NoneV,
          text |-> "word_count() takes 1 positional argument but "
                     \o IntStr(Len(as)) \o " were given"]
    ELSE IF as[1].t = "str"
    THEN [ok |-> TRUE, value |-> IntV(Words(as[1].v)), text |-> ""]
    ELSE [ok |-> FALSE, value |-> NoneV,
          text |-> "'" \o TypeName(as[1]) \o "' object has no attribute 'split'"]

\* tool_func(*args) for the tools a plan of the model names
Invoke(name, as) == IF name = "word_count" THEN WordCount(as) ELSE Add(as)

\* the argument lists a planned call is drawn from
ArgLists ==
    { <<>>,
      <<IntV(2), IntV(3)>>,
      <<StrV("previous"), IntV(1)>>,
      <<StrV("PREVIOUS"), StrV("Previous")>> }

\* the tool names a planned call is drawn from
PlanTools == {"add", "missing_tool"}

\* the elements of a decoded array: tool-call objects, objects that lack
\* a key, and a string
PlanElements ==
    { [kind |-> "object", keys |-> {"tool", "args", "reasoning"},
       tool |-> tn, args |-> al, reasoning |-> "why"]
      : tn \in PlanTools, al \in ArgLists }
    \cup { [kind |-> "object", keys |-> {"args", "reasoning"},
            tool |-> "", args |-> <<>>, reasoning |-> "why"],
           [kind |-> "object", keys |-> {"tool"},
            tool |-> "add", args |-> <<>>, reasoning |-> ""],
           [kind |-> "string", keys |-> {},
            tool |-> "", args |-> <<>>, reasoning |-> ""] }

\* what json.loads can hand to the loop: an array, or a value that cannot be
\* iterated (null, a number)
PlanInputs ==
    { [kind |-> "array", items |-> it]
      : it \in UNION {[1..n -> PlanElements] : n \in 0..MaxPlanLen} }
    \cup { [kind |-> "null", items |-> <<>>] }

(***************************************************************************)
(* raw_plan, the text of the LLM response, and the way execute_plan        *)
(* decodes it.  A text is a sequence of lexical pieces: brackets, commas,  *)
(* fence marks, a language tag, white space, prose words, and JSON         *)
(* literals.  An object literal is one piece; it holds no brace inside     *)
(* its strings and no nested object, and the literal of its args holds no  *)
(* nested bracket.  Prose words hold no bracket, brace or backtick.        *)
(***************************************************************************)
\* longest array that is also drawn wrapped in a fence or in prose
MaxWrappedLen == 2

\* a piece that is no tool-call object
Tok(k) == [kind |-> k, keys |-> {}, tool |-> "", args |-> <<>>, reasoning |-> ""]

\* the pieces json.loads reads as one JSON value
ValueKinds == {"object", "string", "number", "null"}

\* items separated by commas
RECURSIVE CommaSep(_)
CommaSep(items) ==
    IF items = <<>> THEN <<>>
    ELSE IF Len(items) = 1 THEN items
         ELSE <<items[1], Tok("comma")>> \o CommaSep(Tail(items))

\* the text of a JSON array of the given elements
ArrayText(items) == <<Tok("lb")>> \o CommaSep(items) \o <<Tok("rb")>>

\* the texts an array is wrapped in: white space, a fence with the json
\* tag, a bare fence, a fence with another tag, a fence inside prose, prose
\* around the array, prose that cites "[1]", prose that holds "[note]"
Wrapped(a) ==
    { <<Tok("ws")>> \o a \o <<Tok("ws")>>,
      <<Tok("fence"), Tok("tag"), Tok("ws")>> \o a \o <<Tok("ws"), Tok("fence")>>,
      <<Tok("fence"), Tok("ws")>> \o a \o <<Tok("ws"), Tok("fence")>>,
      <<Tok("fence"), Tok("word"), Tok("ws")>> \o a \o <<Tok("ws"), Tok("fence")>>,
      <<Tok("word"), Tok("ws"), Tok("fence"), Tok("tag"), Tok("ws")>> \o a
          \o <<Tok("ws"), Tok("fence"), Tok("ws"), Tok("word")>>,
      <<Tok("word"), Tok("ws")>> \o a \o <<Tok("ws"), Tok("word")>>,
      <<Tok("word"), Tok("lb"), Tok("number"), Tok("rb"), Tok("ws")>> \o a,
      <<Tok("lb"), Tok("word"), Tok("rb"), Tok("ws")>> \o a }

\* texts that hold no JSON array: prose, nothing, an object, an unclosed
\* array
OtherTexts ==
    { <<Tok("word"), Tok("ws"), Tok("word")>>,
      <<>>,
      <<Tok("number")>>,
      <<[kind |-> "object", keys |-> {}, tool |-> "", args |-> <<>>,
         reasoning |-> ""]>>,
      <<[kind |-> "object", keys |-> {"tool", "args"}, tool |-> "add",
         args |-> <<IntV(2), IntV(3)>>, reasoning |-> ""]>>,
      <<Tok("lb"), [kind |-> "object", keys |-> {"tool", "args"}, tool |-> "add",
                    args |-> <<IntV(2), IntV(3)>>, reasoning |-> ""]>>,
      <<Tok("word"), Tok("lb"), Tok("word")>> }

\* the text of the array of one call of add
AddCallText ==
    ArrayText(<<[kind |-> "object", keys |-> {"tool", "args", "reasoning"},
                 tool |-> "add", args |-> <<IntV(2), IntV(3)>>,
                 reasoning |-> "why"]>>)

\* texts that hold a bracketed number before the array: prose that cites
\* "[1]" before a fenced array, and a fence that holds "[1]" and the array
MixedTexts ==
    { <<Tok("word"), Tok("lb"), Tok("number"), Tok("rb"), Tok("ws"),
        Tok("fence"), Tok("tag"), Tok("ws")>> \o AddCallText
          \o <<Tok("ws"), Tok("fence")>>,
      <<Tok("fence"), Tok("ws"), Tok("lb"), Tok("number"), Tok("rb"), Tok("ws")>>
          \o AddCallText \o <<Tok("ws"), Tok("fence")>> }

\* the text that is exactly the JSON value p
TextOf(p) == IF p.kind = "array" THEN ArrayText(p.items) ELSE <<Tok("null")>>

\* the responses that hold the JSON value p: its text alone and, for a
\* short array, its text wrapped
RawPlansOf(p) ==
    {TextOf(p)}
    \cup IF p.kind = "array" /\ Len(p.items) <= MaxWrappedLen
         THEN Wrapped(ArrayText(p.items))
         ELSE {}

\* t[lo..hi]
Slice(t, lo, hi) == [k \in 1..(hi - lo + 1) |-> t[lo + k - 1]]

\* the first position from p on that holds no white space (Len(t) + 1: none)
RECURSIVE SkipWs(_, _)
SkipWs(t, p) ==
    IF p > Len(t) THEN Len(t) + 1
    ELSE IF t[p].kind = "ws" THEN SkipWs(t, p + 1) ELSE p

\* the last position up to p that holds no white space (0: none)
RECURSIVE SkipWsBack(_, _)
SkipWsBack(t, p) ==
    IF p < 1 THEN 0
    ELSE IF t[p].kind = "ws" THEN SkipWsBack(t, p - 1) ELSE p

\* t without leading and trailing white space
StripWs(t) == Slice(t, SkipWs(t, 1), SkipWsBack(t, Len(t)))

\* t is "[" v "," v ... "]" with JSON values v
IsArrayText(t) ==
    /\ Len(t) >= 2
    /\ t[1].kind = "lb"
    /\ t[Len(t)].kind = "rb"
    /\ Len(t) = 2 \/ Len(t) % 2 = 1
    /\ \A k \in 2..(Len(t) - 1) :
          IF k % 2 = 0 THEN t[k].kind \in ValueKinds ELSE t[k].kind = "comma"

\* the elements of the array text t
ArrayItems(t) == [k \in 1..((Len(t) - 1) \div 2) |-> t[2 * k]]

\* json.loads(t): an array, or a single value (a dict is iterated by its
\* keys, a string by its characters; a string literal of the model is one
\* character long), or JSONDecodeError
JsonLoads(t) ==
    LET s == StripWs(t)
    IN IF IsArrayText(s)
       THEN [ok |-> TRUE, value |-> [kind |-> "array", items |-> ArrayItems(s)]]
       ELSE IF Len(s) = 1 /\ s[1].kind = "null"
       THEN [ok |-> TRUE, value |-> [kind |-> "null", items |-> <<>>]]
       ELSE IF Len(s) = 1 /\ s[1].kind = "number"
       THEN [ok |-> TRUE, value |-> [kind |-> "number", items |-> <<>>]]
       ELSE IF Len(s) = 1 /\ s[1].kind = "string"
       THEN [ok |-> TRUE, value |-> [kind |-> "str", items |-> <<Tok("string")>>]]
       ELSE IF Len(s) = 1 /\ s[1].kind = "object"
       THEN [ok |-> TRUE,
             value |-> [kind |-> "dict",
                        items |-> [k \in 1..Cardinality(s[1].keys) |-> Tok("string")]]]
       ELSE [ok |-> FALSE, value |-> NoRecord]

\* the least element of a non-empty set of positions
MinOf(S) == CHOOSE m \in S : \A n \in S : m <= n

\* r'```(?:json)?\s*(\[.*?\])\s*```' matched with the fence mark at p: the
\* group runs from the bracket after the mark to the first closing bracket
\* that is followed by a fence mark
FenceFrom(t, p) ==
    LET q == IF p + 1 <= Len(t) /\ t[p + 1].kind = "tag" THEN p + 2 ELSE p + 1
        s == SkipWs(t, q)
        ends == IF s <= Len(t) /\ t[s].kind = "lb"
                THEN {e \in (s + 1)..Len(t) :
                        /\ t[e].kind = "rb"
                        /\ SkipWs(t, e + 1) <= Len(t)
                        /\ t[SkipWs(t, e + 1)].kind = "fence"}
                ELSE {}
    IN IF ends = {} THEN [found |-> FALSE, lo |-> 0, hi |-> 0]
       ELSE [found |-> TRUE, lo |-> s, hi |-> MinOf(ends)]

\* re.search of the fence pattern: the leftmost match
FenceSearch(t) ==
    LET starts == {p \in 1..Len(t) : t[p].kind = "fence" /\ FenceFrom(t, p).found}
    IN IF starts = {} THEN [found |-> FALSE, lo |-> 0, hi |-> 0]
       ELSE FenceFrom(t, MinOf(starts))

\* r'\[(?:[^\[\]]*|\{[^}]*\})*\]' matched from the bracket at s: the body
\* holds object literals and pieces without brackets; 0 when the next
\* bracket is no closing one
BracketEnd(t, s) ==
    LET nxt == {e \in (s + 1)..Len(t) : t[e].kind \in {"lb", "rb"}}
    IN IF nxt = {} THEN 0
       ELSE IF t[MinOf(nxt)].kind = "rb" THEN MinOf(nxt) ELSE 0

\* the literal of the args of the object literal e, read as an array
ArgsItems(e) ==
    [k \in 1..Len(e.args) |->
        IF e.args[k].t = "int" THEN Tok("number") ELSE Tok("string")]

\* re.search of the bracket pattern and json.loads of the match: the
\* leftmost match starts at a bracket of the text or at the bracket that
\* opens the args inside an object literal
BracketSearch(t) ==
    LET starts == {s \in 1..Len(t) :
                      \/ t[s].kind = "lb" /\ BracketEnd(t, s) # 0
                      \/ t[s].kind = "object" /\ "args" \in t[s].keys}
        s0 == MinOf(starts)
    IN IF starts = {} THEN [found |-> FALSE, ok |-> FALSE, value |-> NoRecord]
       ELSE IF t[s0].kind = "object"
       THEN [found |-> TRUE, ok |-> TRUE,
             value |-> [kind |-> "array", items |-> ArgsItems(t[s0])]]
       ELSE [found |-> TRUE,
             ok |-> JsonLoads(Slice(t, s0, BracketEnd(t, s0))).ok,
             value |-> JsonLoads(Slice(t, s0, BracketEnd(t, s0))).value]

\* mutant: the fence pattern is not tried
FenceDecodesNever(t) == FALSE

\* the group of the fence pattern decodes
FenceDecodes(t) ==
    /\ FenceSearch(t).found
    /\ JsonLoads(Slice(t, FenceSearch(t).lo, FenceSearch(t).hi)).ok

\* the scopes execute_plan is called with ("ghost" is no registered agent)
PlanScopes == {"math", "ghost"}

\* the schedulers are not running
SchedParked ==
    /\ impl = NoValue
    /\ steps = <<>>
    /\ completed_results = <<>>
    /\ pending_steps = <<>>
    /\ ready_steps = <<>>
    /\ remaining_steps = <<>>
    /\ task_state = <<>>
    /\ slot = <<>>
    /\ task_in = <<>>
    /\ orch_log = <<>>
    /\ pc = "idle"
    /\ ret = NoRecord
    /\ exc = NoValue
    /\ wave = 0
    /\ wave_of = <<>>
    /\ launches = <<>>

\* the name plan is not bound yet
NoPlan == [kind |-> "unbound", items |-> <<>>]

\* the state when the LLM response has arrived
PlanInit ==
    /\ agent \in PlanScopes
    /\ \/ \E p \in PlanInputs : raw_plan \in RawPlansOf(p)
       \/ raw_plan \in OtherTexts
       \/ raw_plan \in MixedTexts
    /\ plan = NoPlan
    /\ plan_exc = NoValue
    /\ toolset = Toolset(agent)
    /\ xpc = "parse"
    /\ step_no = 0
    /\ steps_log = <<>>
    /\ last_result = NoneV
    /\ tool_name = NoValue
    /\ args = <<>>
    /\ caught = NoValue
    /\ calls = <<>>
    /\ failed_at = 0
    /\ plan_log = <<>>
    /\ result = NoRecord
    /\ SchedParked
    /\ FlowParked

\* mutant: plan is bound to the decoded value without its elements
DecodedEmptied(p) ==
    /\ plan' = [p EXCEPT !.items = <<>>]
    /\ calls' = <<>>
    /\ xpc' = "loop"
    /\ UNCHANGED <<flowVars, schedVars, raw_plan, plan_exc, agent, toolset, step_no,
                   steps_log, last_result, tool_name, args, caught, failed_at,
                   plan_log, result>>

\* plan is bound to the decoded value p and the try block is entered
Decoded(p) ==
    /\ plan' = p
    /\ calls' = [k \in 1..Len(p.items) |-> 0]
    /\ xpc' = "loop"
    /\ UNCHANGED <<flowVars, schedVars, raw_plan, plan_exc, agent, toolset, step_no,
                   steps_log, last_result, tool_name, args, caught, failed_at,
                   plan_log, result>>

\* json.loads(raw_plan) succeeds
ParseDirect ==
    /\ xpc = "parse"
    /\ JsonLoads(raw_plan).ok
    /\ Decoded(JsonLoads(raw_plan).value)

\* json.loads fails; the group of the fence pattern decodes
ParseFenced ==
    /\ xpc = "parse"
    /\ ~JsonLoads(raw_plan).ok
    /\ FenceDecodes(raw_plan)
    /\ Decoded(JsonLoads(Slice(raw_plan, FenceSearch(raw_plan).lo,
                                FenceSearch(raw_plan).hi)).value)

\* no plan from a fence; the match of the bracket pattern decodes
ParseBracket ==
    /\ xpc = "parse"
    /\ ~JsonLoads(raw_plan).ok
    /\ ~FenceDecodes(raw_plan)
    /\ BracketSearch(raw_plan).found
    /\ BracketSearch(raw_plan).ok
    /\ Decoded(BracketSearch(raw_plan).value)

\* str(ValueError("Could not extract valid JSON array from LLM response"))
ParseError == "Could not extract valid JSON array from LLM response"

\* the bracket pattern does not match or its match does not decode: the
\* ValueError is raised outside the try block and leaves execute_plan
ParseFails ==
    /\ xpc = "parse"
    /\ ~JsonLoads(raw_plan).ok
    /\ ~FenceDecodes(raw_plan)
    /\ ~(BracketSearch(raw_plan).found /\ BracketSearch(raw_plan).ok)
    /\ plan_exc' = ParseError
    /\ xpc' = "raised"
    /\ UNCHANGED <<flowVars, schedVars, raw_plan, agent, plan, toolset, step_no,
                   steps_log, last_result, tool_name, args, caught, calls,
                   failed_at, plan_log, result>>

\* `for step in plan` can bind a step: a list, a dict (its keys) or a str
\* (its characters)
Iterable(p) == p.kind \in {"array", "dict", "str"}

\* the element the next iteration of `for step in plan` binds
CurStep == plan.items[step_no + 1]

InLoop == xpc = "loop" /\ Iterable(plan) /\ step_no < Len(plan.items)

WellFormed(e) == e.kind = "object" /\ {"tool", "args"} \subseteq e.keys

\* for step in plan: plan is None or a number
ExecNotIterable ==
    /\ xpc = "loop" /\ ~Iterable(plan)
    /\ caught' = IF plan.kind = "null"
                 THEN "'NoneType' object is not iterable"
                 ELSE "'int' object is not iterable"
    /\ xpc' = "except"
    /\ UNCHANGED <<flowVars, schedVars, raw_plan, plan_exc, failed_at, agent, plan, toolset, step_no, steps_log,
                   last_result, tool_name, args, calls, plan_log, result>>

\* step["tool"] or step["args"] fails
ExecBadStep ==
    /\ InLoop /\ ~WellFormed(CurStep)
    /\ step_no' = step_no + 1
    /\ IF CurStep.kind # "object"
       THEN /\ caught' = IF CurStep.kind = "string"
                         THEN "string indices must be integers"
                         ELSE IF CurStep.kind = "number"
                         THEN "'int' object is not subscriptable"
                         ELSE "'NoneType' object is not subscriptable"
            /\ UNCHANGED tool_name
       ELSE IF "tool" \notin CurStep.keys
       THEN /\ caught' = "'tool'"
            /\ UNCHANGED tool_name
       ELSE /\ caught' = "'args'"
            /\ tool_name' = CurStep.tool
    /\ failed_at' = step_no + 1
    /\ xpc' = "except"
    /\ UNCHANGED <<flowVars, schedVars, raw_plan, plan_exc, agent, plan, toolset, steps_log, last_result,
                   args, calls, plan_log, result>>

\* mutant: the error names the tool the way a KeyError would
UnknownToolKeyError(name) == "'" \o name \o "'"

\* str(ValueError(f"Unknown tool: {tool_name}"))
UnknownToolError(name) == "Unknown tool: " \o name

\* tool_name not in toolset: log the error, raise ValueError
ExecUnknownTool ==
    /\ InLoop /\ WellFormed(CurStep)
    /\ CurStep.tool \notin toolset
    /\ step_no' = step_no + 1
    /\ tool_name' = CurStep.tool
    /\ args' = Substitute(CurStep.args, last_result)
    /\ plan_log' = Append(plan_log,
           [tool |-> CurStep.tool, args |-> Substitute(CurStep.args, last_result),
            error |-> "Unknown tool", reasoning |-> CurStep.reasoning])
    /\ caught' = UnknownToolError(CurStep.tool)
    /\ failed_at' = step_no + 1
    /\ xpc' = "except"
    /\ UNCHANGED <<flowVars, schedVars, raw_plan, plan_exc, agent, plan, toolset, steps_log, last_result,
                   calls, result>>

\* the tool is invoked and raises
ExecToolRaises ==
    /\ InLoop /\ WellFormed(CurStep)
    /\ CurStep.tool \in toolset
    /\ ~Invoke(CurStep.tool, Substitute(CurStep.args, last_result)).ok
    /\ step_no' = step_no + 1
    /\ tool_name' = CurStep.tool
    /\ args' = Substitute(CurStep.args, last_result)
    /\ calls' = [calls EXCEPT ![step_no + 1] = @ + 1]
    /\ caught' = Invoke(CurStep.tool, Substitute(CurStep.args, last_result)).text
    /\ failed_at' = step_no + 1
    /\ xpc' = "except"
    /\ UNCHANGED <<flowVars, schedVars, raw_plan, plan_exc, agent, plan, toolset, steps_log, last_result,
                   plan_log, result>>

\* mutant: the entry keeps the args as the plan wrote them
StepEntryRawArgs(e, as, r) ==
    [tool |-> e.tool, args |-> e.args, result |-> r, reasoning |-> e.reasoning]

\* the entry appended to steps_log (and, with the same fields, logged)
StepEntry(e, as, r) ==
    [tool |-> e.tool, args |-> as, result |-> r, reasoning |-> e.reasoning]

\* the tool is invoked and returns: log, append to steps_log, keep the result
ExecStepOk ==
    /\ InLoop /\ WellFormed(CurStep)
    /\ CurStep.tool \in toolset
    /\ Invoke(CurStep.tool, Substitute(CurStep.args, last_result)).ok
    /\ LET as == Substitute(CurStep.args, last_result)
           r == Invoke(CurStep.tool, as).value
       IN /\ tool_name' = CurStep.tool
          /\ args' = as
          /\ calls' = [calls EXCEPT ![step_no + 1] = @ + 1]
          /\ plan_log' = Append(plan_log, StepEntry(CurStep, as, r))
          /\ steps_log' = Append(steps_log, StepEntry(CurStep, as, r))
          /\ last_result' = r
    /\ step_no' = step_no + 1
    /\ UNCHANGED <<flowVars, schedVars, raw_plan, plan_exc, failed_at, agent, plan, toolset, xpc, caught, result>>

\* mutant: the success result also carries an (empty) error field
SuccessResultWithError ==
    [final_result |-> last_result, steps |-> steps_log, error |-> ""]

\* {"final_result": last_result, "steps": steps_log}
SuccessResult == [final_result |-> last_result, steps |-> steps_log]

\* the loop is exhausted: return the final result
ExecReturn ==
    /\ xpc = "loop" /\ Iterable(plan) /\ step_no = Len(plan.items)
    /\ result' = SuccessResult
    /\ xpc' = "done"
    /\ UNCHANGED <<flowVars, schedVars, raw_plan, plan_exc, failed_at, agent, plan, toolset, step_no, steps_log,
                   last_result, tool_name, args, caught, calls, plan_log>>

\* mutant: the failing call gets a trace entry of its own
FailureTraceWithMarker ==
    Append(steps_log,
           [tool |-> tool_name, args |-> args, error |-> caught])

\* the steps the error result carries: steps_log as it stands
FailureTrace == steps_log

\* mutant: the error field is a fixed text, not the text of the exception
ErrorResultGeneric == [error |-> "Tool execution failed", steps |-> FailureTrace]

\* {"error": str(e), "steps": steps_log}
ErrorResult == [error |-> caught, steps |-> FailureTrace]

\* mutant: the handler logs the failure and goes on with the next step
ExecExceptContinue ==
    /\ xpc = "except"
    /\ plan_log' = Append(plan_log,
           [tool |-> IF tool_name # NoValue THEN tool_name ELSE "unknown",
            args |-> args,
            error |-> caught])
    /\ xpc' = "loop"
    /\ UNCHANGED <<flowVars, schedVars, raw_plan, plan_exc, failed_at, agent, plan, toolset, step_no, steps_log,
                   last_result, tool_name, args, caught, calls, result>>

\* except Exception as e: log it, return the error with the trace so far
ExecExcept ==
    /\ xpc = "except"
    /\ plan_log' = Append(plan_log,
           [tool |-> IF tool_name # NoValue THEN tool_name ELSE "unknown",
            args |-> args,
            error |-> caught])
    /\ result' = ErrorResult
    /\ xpc' = "done"
    /\ UNCHANGED <<flowVars, schedVars, raw_plan, plan_exc, failed_at, agent, plan, toolset, step_no, steps_log,
                   last_result, tool_name, args, caught, calls>>

PlanNext ==
    \/ ParseDirect
    \/ ParseFenced
    \/ ParseBracket
    \/ ParseFails
    \/ ExecNotIterable
    \/ ExecBadStep
    \/ ExecUnknownTool
    \/ ExecToolRaises
    \/ ExecStepOk
    \/ ExecReturn
    \/ ExecExcept

PlanSpec == PlanInit /\ [][PlanNext]_vars

(***************************************************************************)
(* execute_plan under every kind of scope: a registered agent whose tools  *)
(* the plan names, a registered agent whose tools it does not name, and a  *)
(* scope that is no key of agent_tools.                                    *)
(***************************************************************************)
\* the scopes: two registered agents and a name that is no registered agent
ScopeNames == {"math", "string", "ghost"}

\* the planned calls: a tool of each registered agent and a tool that no
\* registry holds
ScopeElements ==
    { [kind |-> "object", keys |-> {"tool", "args", "reasoning"},
       tool |-> tn, args |-> al, reasoning |-> "why"]
      : tn \in {"add", "word_count", "missing_tool"},
        al \in {<<IntV(2), IntV(3)>>, <<StrV("two words")>>} }
    \cup { [kind |-> "object", keys |-> {"tool"},
            tool |-> "add", args |-> <<>>, reasoning |-> ""] }

ScopeInputs ==
    { [kind |-> "array", items |-> it]
      : it \in UNION {[1..n -> ScopeElements] : n \in 0..MaxPlanLen} }
    \cup { [kind |-> "null", items |-> <<>>] }

\* the state when the LLM response has arrived
ScopeInit ==
    /\ agent \in ScopeNames
    /\ \/ \E p \in ScopeInputs : raw_plan \in RawPlansOf(p)
       \/ raw_plan \in OtherTexts
       \/ raw_plan \in MixedTexts
    /\ plan = NoPlan
    /\ plan_exc = NoValue
    /\ toolset = Toolset(agent)
    /\ xpc = "parse"
    /\ step_no = 0
    /\ steps_log = <<>>
    /\ last_result = NoneV
    /\ tool_name = NoValue
    /\ args = <<>>
    /\ caught = NoValue
    /\ calls = <<>>
    /\ failed_at = 0
    /\ plan_log = <<>>
    /\ result = NoRecord
    /\ SchedParked
    /\ FlowParked

ScopeSpec == ScopeInit /\ [][PlanNext]_vars

(***************************************************************************)
(* Both entry points: a run of a scheduler or a run of execute_plan.       *)
(***************************************************************************)
CoreInit == SchedInit \/ PlanInit

CoreNext == SchedNext \/ PlanNext

CoreSpec == CoreInit /\ [][CoreNext]_vars

(***************************************************************************)
(* The workflow tasks built on the core: the iteration loops of            *)
(* hybrid_workflow, reflexion_workflow and research_report_workflow, and   *)
(* the attempts of demo_error_recovery_workflow.                           *)
(***************************************************************************)
\* largest max_iterations / max_quality_iterations a workflow is called with
MaxIterations == 3
\* longest mini-plan of one decision
MaxMiniSteps == 2

\* Python bool
BoolV(b) == [t |-> "bool", v |-> b]

\* bool(a): the truth value an `if` reads off a decoded JSON value
Truthy(a) ==
    IF a.t = "bool" THEN a.v
    ELSE IF a.t = "none" THEN FALSE
    ELSE IF a.t = "int" THEN a.v # 0
    ELSE a.v # ""

\* the values the decision of an LLM response carries under "goal_achieved"
GoalValues == {BoolV(TRUE), BoolV(FALSE), StrV("no"), NoneV}

\* the keys an LLM decision object may carry
DecisionKeys == {"thought", "goal_achieved", "plan_steps", "final_answer"}

DecisionKeySets == {DecisionKeys} \cup {DecisionKeys \ {k} : k \in DecisionKeys}

\* the LLM responses of one iteration of hybrid_workflow: a text no parsing
\* strategy decodes, or a JSON object; plan_steps is the length of the list
HybridDecisions ==
    {[kind |-> "text"]} \cup
    {[kind |-> "object", keys |-> ks, goal_achieved |-> g, plan_steps |-> n,
      final_answer |-> a]
       : ks \in DecisionKeySets, g \in GoalValues, n \in 0..MaxMiniSteps,
         a \in {NoneV, StrV("42")}}

\* the exception the decision d makes the iteration raise (NoValue: none)
DecisionError(d) ==
    IF d.kind = "text" THEN "ValueError: LLM did not return valid JSON"
    ELSE IF "thought" \notin d.keys THEN "KeyError: 'thought'"
    ELSE IF "goal_achieved" \notin d.keys THEN "KeyError: 'goal_achieved'"
    ELSE IF Truthy(d.goal_achieved)
         THEN IF "final_answer" \notin d.keys THEN "KeyError: 'final_answer'"
              ELSE NoValue
    ELSE IF "plan_steps" \notin d.keys THEN "KeyError: 'plan_steps'"
    ELSE NoValue

\* the assignment of line 206 was reached
GoalAssigned(d) ==
    /\ d.kind = "object"
    /\ "thought" \in d.keys
    /\ "goal_achieved" \in d.keys

\* results_summary of n step results
ResultsSummary(n) ==
    Join([i \in 1..n |-> "Step " \o Str(i - 1) \o " (math): ok"], "\n")

\* the ways the await of execute_mini_plan ends
MiniPlanOutcomes == {"returned", "raised"}

\* the frame of hybrid_workflow when the loop is entered
HybridFrame(m) ==
    [workflow |-> "hybrid",
     max_iterations |-> m,
     iter_num |-> 0,
     iterations |-> <<>>,
     goal_achieved |-> BoolV(FALSE),
     final_answer |-> NoRecord,
     results_summary |-> NoValue,
     total_steps_executed |-> 0,
     task_runs |-> <<>>,
     pc |-> "loop",
     ret |-> NoRecord,
     exc |-> NoValue]

HybridInit ==
    /\ \E m \in 0..MaxIterations : wf = HybridFrame(m)
    /\ PlanParked
    /\ SchedParked

\* mutant: the loop runs one iteration more
HybridLoopGuardOneMore == wf.iter_num < wf.max_iterations + 1

\* range(1, max_iterations + 1) yields another iter_num
HybridLoopGuard == wf.iter_num < wf.max_iterations

\* an iteration whose decision does not parse or lacks a key it reads
HybridDecisionFails(d) ==
    /\ wf.workflow = "hybrid"
    /\ wf.pc = "loop"
    /\ HybridLoopGuard
    /\ DecisionError(d) # NoValue
    /\ wf' = [wf EXCEPT
                 !.iter_num = @ + 1,
                 !.goal_achieved = IF GoalAssigned(d) THEN d.goal_achieved ELSE @,
                 !.exc = DecisionError(d),
                 !.pc = "raised"]
    /\ UNCHANGED <<planVars, schedVars>>

\* the record appended for the iteration that achieved the goal
AchievedRecord(n) ==
    [iteration_number |-> n, plan_steps |-> 0, step_results |-> 0,
     reflection |-> "Goal achieved", goal_achieved |-> TRUE]

\* the record appended for an iteration that executed a mini-plan of k steps
ExecutedRecord(n, k) ==
    [iteration_number |-> n, plan_steps |-> k, step_results |-> k,
     reflection |-> "reflection", goal_achieved |-> FALSE]

\* mutant: the break is missing
AfterAchievedNoBreak == "loop"

\* where the iteration goes after recording an achieved goal: the break
AfterAchieved == "after"

\* an iteration whose decision says the goal is achieved: record it and break
HybridGoalAchieved(d) ==
    /\ wf.workflow = "hybrid"
    /\ wf.pc = "loop"
    /\ HybridLoopGuard
    /\ DecisionError(d) = NoValue
    /\ Truthy(d.goal_achieved)
    /\ wf' = [wf EXCEPT
                 !.iter_num = @ + 1,
                 !.goal_achieved = d.goal_achieved,
                 !.final_answer = d.final_answer,
                 !.iterations = Append(@, AchievedRecord(wf.iter_num + 1)),
                 !.pc = AfterAchieved]
    /\ UNCHANGED <<planVars, schedVars>>

\* an iteration that executes the mini-plan of its decision, reflects on the
\* results and records them; execute_mini_plan either returns one result per
\* step or raises
HybridPlanAndExecute(d, o) ==
    /\ wf.workflow = "hybrid"
    /\ wf.pc = "loop"
    /\ HybridLoopGuard
    /\ DecisionError(d) = NoValue
    /\ ~Truthy(d.goal_achieved)
    /\ wf' = IF o = "raised"
             THEN [wf EXCEPT
                      !.iter_num = @ + 1,
                      !.goal_achieved = d.goal_achieved,
                      !.task_runs = Append(@, [task |-> "execute_mini_plan", outcome |-> o]),
                      !.exc = "KeyError",
                      !.pc = "raised"]
             ELSE [wf EXCEPT
                      !.iter_num = @ + 1,
                      !.goal_achieved = d.goal_achieved,
                      !.task_runs = Append(@, [task |-> "execute_mini_plan", outcome |-> o]),
                      !.total_steps_executed = @ + d.plan_steps,
                      !.results_summary = ResultsSummary(d.plan_steps),
                      !.iterations = Append(@, ExecutedRecord(wf.iter_num + 1, d.plan_steps))]
    /\ UNCHANGED <<planVars, schedVars>>

\* the for loop is exhausted
HybridLoopEnd ==
    /\ wf.workflow = "hybrid"
    /\ wf.pc = "loop"
    /\ ~HybridLoopGuard
    /\ wf' = [wf EXCEPT !.pc = "after"]
    /\ UNCHANGED <<planVars, schedVars>>

\* the final_answer built when the goal was not achieved
NotAchievedAnswer ==
    StrV("Could not achieve goal in " \o Str(wf.max_iterations)
         \o " iterations. Last results: " \o wf.results_summary)

HybridResult(answer) ==
    [iterations |-> wf.iterations,
     final_answer |-> answer,
     total_iterations |-> Len(wf.iterations),
     total_steps_executed |-> wf.total_steps_executed,
     goal_achieved |-> wf.goal_achieved]

\* after the loop, goal not achieved, and no iteration bound results_summary
HybridUnbound ==
    /\ wf.workflow = "hybrid"
    /\ wf.pc = "after"
    /\ ~Truthy(wf.goal_achieved)
    /\ wf.results_summary = NoValue
    /\ wf' = [wf EXCEPT
                 !.exc = "UnboundLocalError: results_summary",
                 !.pc = "raised"]
    /\ UNCHANGED <<planVars, schedVars>>

\* after the loop: the HybridResult is returned
HybridReturn ==
    /\ wf.workflow = "hybrid"
    /\ wf.pc = "after"
    /\ Truthy(wf.goal_achieved) \/ wf.results_summary # NoValue
    /\ LET answer == IF Truthy(wf.goal_achieved) THEN wf.final_answer
                     ELSE NotAchievedAnswer
       IN wf' = [wf EXCEPT
                    !.final_answer = answer,
                    !.ret = HybridResult(answer),
                    !.pc = "done"]
    /\ UNCHANGED <<planVars, schedVars>>

HybridNext ==
    \/ \E d \in HybridDecisions : HybridDecisionFails(d)
    \/ \E d \in HybridDecisions : HybridGoalAchieved(d)
    \/ \E d \in HybridDecisions, o \in MiniPlanOutcomes : HybridPlanAndExecute(d, o)
    \/ HybridLoopEnd
    \/ HybridUnbound
    \/ HybridReturn

(***************************************************************************)
(* The critique/revise loop of reflexion_workflow and the quality loop of  *)
(* research_report_workflow, from the first critique on.                   *)
(***************************************************************************)
\* the two workflows that run the loop
QualityWorkflows == {"reflexion", "report"}

\* the quality_threshold values a workflow is called with
Thresholds == {7, 8}

\* the numeric overall_score values of a critique
ScoreValues == {IntV(6), IntV(7), IntV(9)}

\* critique_data.get("overall_score", 7.0) of research_report_workflow
DefaultScore == 7

\* the LLM responses to a critique prompt: a text no strategy decodes, or a
\* JSON object whose overall_score is a number, a string, or missing
Critiques ==
    {[kind |-> "text"]} \cup
    {[kind |-> "object", overall_score |-> x]
       : x \in ScoreValues \cup {StrV("8.5"), NoRecord}}

\* the critique carries no overall_score the workflow can read
NoScore(c) == c.kind = "text" \/ c.overall_score = NoRecord

\* the exception parsing the critique c raises in workflow w (NoValue: none)
CritiqueError(w, c) ==
    IF w = "report" THEN NoValue
    ELSE IF c.kind = "text" THEN "ValueError: LLM did not return valid JSON"
    ELSE IF c.overall_score = NoRecord THEN "KeyError: 'overall_score'"
    ELSE NoValue

\* quality_score as the workflow w binds it
QualityScoreOf(w, c) ==
    IF NoScore(c) THEN IntV(DefaultScore) ELSE c.overall_score

\* mutant: the comparison is strict
MeetsThresholdStrict(score, threshold) == score.v > threshold

\* quality_score >= quality_threshold
MeetsThreshold(score, threshold) == score.v >= threshold

\* the record appended for one critique
QualityRecord(w, n, score, meets) ==
    IF w = "reflexion"
    THEN [iteration_number |-> n, content |-> wf.current_content,
          quality_score |-> score, meets_threshold |-> meets]
    ELSE [iteration_number |-> n, quality_score |-> score,
          content |-> wf.current_content]

\* the frame of reflexion_workflow / research_report_workflow when the loop
\* is entered (quality_threshold_met is a local of reflexion_workflow,
\* final_quality_score one of research_report_workflow)
QualityFrame(w, m, q) ==
    [workflow |-> w,
     max_iterations |-> m,
     quality_threshold |-> q,
     iter_num |-> 0,
     iterations |-> <<>>,
     quality_threshold_met |-> FALSE,
     quality_score |-> NoRecord,
     final_quality_score |-> IF w = "report" THEN IntV(0) ELSE NoRecord,
     current_content |-> "draft",
     task_runs |-> <<>>,
     pc |-> "loop",
     ret |-> NoRecord,
     exc |-> NoValue]

QualityInit ==
    /\ \E w \in QualityWorkflows, m \in 0..MaxIterations, q \in Thresholds :
          wf = QualityFrame(w, m, q)
    /\ PlanParked
    /\ SchedParked

\* range(1, max_iterations + 1) yields another iter_num
QualityLoopGuard == wf.iter_num < wf.max_iterations

\* reflexion_workflow: the critique does not parse or has no overall_score
CritiqueFails(c) ==
    /\ wf.workflow \in QualityWorkflows
    /\ wf.pc = "loop"
    /\ QualityLoopGuard
    /\ CritiqueError(wf.workflow, c) # NoValue
    /\ wf' = [wf EXCEPT
                 !.iter_num = @ + 1,
                 !.exc = CritiqueError(wf.workflow, c),
                 !.pc = "raised"]
    /\ UNCHANGED <<planVars, schedVars>>

\* the overall_score is a string: comparing it with the threshold raises
\* TypeError, in research_report_workflow after the iteration was recorded
CritiqueBadScore(c) ==
    /\ wf.workflow \in QualityWorkflows
    /\ wf.pc = "loop"
    /\ QualityLoopGuard
    /\ CritiqueError(wf.workflow, c) = NoValue
    /\ QualityScoreOf(wf.workflow, c).t = "str"
    /\ wf' = IF wf.workflow = "report"
             THEN [wf EXCEPT
                      !.iter_num = @ + 1,
                      !.quality_score = QualityScoreOf(wf.workflow, c),
                      !.iterations = Append(@,
                          QualityRecord(wf.workflow, wf.iter_num + 1, QualityScoreOf(wf.workflow, c), FALSE)),
                      !.final_quality_score = QualityScoreOf(wf.workflow, c),
                      !.exc = "TypeError: '>=' not supported",
                      !.pc = "raised"]
             ELSE [wf EXCEPT
                      !.iter_num = @ + 1,
                      !.quality_score = QualityScoreOf(wf.workflow, c),
                      !.exc = "TypeError: '>=' not supported",
                      !.pc = "raised"]
    /\ UNCHANGED <<planVars, schedVars>>

\* the score meets the threshold: record the iteration and break
CritiqueMeets(c) ==
    /\ wf.workflow \in QualityWorkflows
    /\ wf.pc = "loop"
    /\ QualityLoopGuard
    /\ CritiqueError(wf.workflow, c) = NoValue
    /\ QualityScoreOf(wf.workflow, c).t = "int"
    /\ MeetsThreshold(QualityScoreOf(wf.workflow, c), wf.quality_threshold)
    /\ wf' = [wf EXCEPT
                 !.iter_num = @ + 1,
                 !.quality_score = QualityScoreOf(wf.workflow, c),
                 !.iterations = Append(@,
                     QualityRecord(wf.workflow, wf.iter_num + 1, QualityScoreOf(wf.workflow, c), TRUE)),
                 !.final_quality_score =
                     IF wf.workflow = "report" THEN QualityScoreOf(wf.workflow, c) ELSE @,
                 !.quality_threshold_met = (wf.workflow = "reflexion"),
                 !.pc = "after"]
    /\ UNCHANGED <<planVars, schedVars>>

\* the ways the await of editor_agent ends
EditorOutcomes == {"ok", "raise"}

\* mutant: the content is revised after the last critique too
ReviseGuardLast(n) == n <= wf.max_iterations

\* the iteration is not the last one: the content is revised
ReviseGuard(n) == n < wf.max_iterations

\* the frame after the critique c was recorded below the threshold
Recorded(c) ==
    [wf EXCEPT
        !.iter_num = @ + 1,
        !.quality_score = QualityScoreOf(wf.workflow, c),
        !.iterations = Append(@,
            QualityRecord(wf.workflow, wf.iter_num + 1, QualityScoreOf(wf.workflow, c), FALSE)),
        !.final_quality_score =
            IF wf.workflow = "report" THEN QualityScoreOf(wf.workflow, c) ELSE @]

\* the score is below the threshold: record the iteration and, unless it was
\* the last one, have the editor revise the content
CritiqueRevise(c, e) ==
    /\ wf.workflow \in QualityWorkflows
    /\ wf.pc = "loop"
    /\ QualityLoopGuard
    /\ CritiqueError(wf.workflow, c) = NoValue
    /\ QualityScoreOf(wf.workflow, c).t = "int"
    /\ ~MeetsThreshold(QualityScoreOf(wf.workflow, c), wf.quality_threshold)
    /\ IF ReviseGuard(wf.iter_num + 1)
       THEN wf' = IF e = "ok"
                  THEN [Recorded(c) EXCEPT
                           !.task_runs = Append(@, [task |-> "editor_agent", outcome |-> e]),
                           !.current_content = "revision" \o Str(wf.iter_num + 1)]
                  ELSE [Recorded(c) EXCEPT
                           !.task_runs = Append(@, [task |-> "editor_agent", outcome |-> e]),
                           !.exc = "ValueError",
                           !.pc = "raised"]
       ELSE /\ e = "ok"
            /\ wf' = Recorded(c)
    /\ UNCHANGED <<planVars, schedVars>>

\* the for loop is exhausted
QualityLoopEnd ==
    /\ wf.workflow \in QualityWorkflows
    /\ wf.pc = "loop"
    /\ ~QualityLoopGuard
    /\ wf' = [wf EXCEPT !.pc = "after"]
    /\ UNCHANGED <<planVars, schedVars>>

\* reflexion_workflow after a loop that never ran: quality_score is not bound
ReflexionUnbound ==
    /\ wf.workflow = "reflexion"
    /\ wf.pc = "after"
    /\ wf.quality_score = NoRecord
    /\ wf' = [wf EXCEPT
                 !.exc = "UnboundLocalError: quality_score",
                 !.pc = "raised"]
    /\ UNCHANGED <<planVars, schedVars>>

ReflexionResult ==
    [iterations |-> wf.iterations,
     final_content |-> wf.current_content,
     total_iterations |-> Len(wf.iterations),
     final_quality_score |-> wf.quality_score,
     quality_threshold_met |-> wf.quality_threshold_met]

ResearchWorkflowResult ==
    [quality_iterations |-> wf.iterations,
     final_report |-> wf.current_content,
     final_quality_score |-> wf.final_quality_score,
     total_quality_iterations |-> Len(wf.iterations)]

\* after the loop: the result is returned
QualityReturn ==
    /\ wf.workflow \in QualityWorkflows
    /\ wf.pc = "after"
    /\ wf.workflow = "reflexion" => wf.quality_score # NoRecord
    /\ wf' = [wf EXCEPT
                 !.ret = IF wf.workflow = "reflexion" THEN ReflexionResult
                         ELSE ResearchWorkflowResult,
                 !.pc = "done"]
    /\ UNCHANGED <<planVars, schedVars>>

QualityNext ==
    \/ \E c \in Critiques : CritiqueFails(c)
    \/ \E c \in Critiques : CritiqueBadScore(c)
    \/ \E c \in Critiques : CritiqueMeets(c)
    \/ \E c \in Critiques, e \in EditorOutcomes : CritiqueRevise(c, e)
    \/ QualityLoopEnd
    \/ ReflexionUnbound
    \/ QualityReturn

(***************************************************************************)
(* demo_error_recovery_workflow: two attempts and the cleanup.             *)
(***************************************************************************)
\* the ways a run of memory_intensive_task ends: its body returns or raises
\* OOMError (always, in demo mode); "other" is a failure of the task run
\* that is no OOMError
MemoryTaskOutcomes(demo) ==
    IF demo THEN {"oom", "other"} ELSE {"ok", "oom", "other"}

OOMText(demo) ==
    IF demo THEN "Simulated out-of-memory error for demo"
    ELSE "Out of memory allocating list: "

\* the frame of demo_error_recovery_workflow before the first attempt;
\* DEMO_MODE is the module flag memory_intensive_task reads
RecoveryFrame(demo) ==
    [workflow |-> "recovery",
     DEMO_MODE |-> demo,
     results |-> [first_attempt |-> "None", second_attempt |-> "None",
                  recovery_steps |-> <<>>, cleanup |-> "None",
                  final_status |-> "unknown"],
     task_runs |-> <<>>,
     pc |-> "first",
     ret |-> NoRecord,
     exc |-> NoValue]

RecoveryInit ==
    /\ \E demo \in BOOLEAN : wf = RecoveryFrame(demo)
    /\ PlanParked
    /\ SchedParked

\* mutant: no second attempt is made
AfterFirstOOMGiveUp == "finally"

\* where the workflow goes after the first attempt raised OOMError
AfterFirstOOM == "second"

\* the first attempt, in the outer try
FirstAttempt(o) ==
    /\ wf.workflow = "recovery"
    /\ wf.pc = "first"
    /\ o \in MemoryTaskOutcomes(wf.DEMO_MODE)
    /\ wf' = IF o = "ok"
             THEN [wf EXCEPT
                      !.task_runs = Append(@, [task |-> "memory_intensive_task", outcome |-> o]),
                      !.results.first_attempt = "success",
                      !.results.final_status = "success_on_first_try",
                      !.pc = "finally"]
             ELSE IF o = "oom"
             THEN [wf EXCEPT
                      !.task_runs = Append(@, [task |-> "memory_intensive_task", outcome |-> o]),
                      !.results.first_attempt = "failed_oom: " \o OOMText(wf.DEMO_MODE),
                      !.results.recovery_steps = Append(@, "caught_oom_on_first_attempt"),
                      !.pc = AfterFirstOOM]
             ELSE [wf EXCEPT
                      !.task_runs = Append(@, [task |-> "memory_intensive_task", outcome |-> o]),
                      !.exc = "RuntimeError",
                      !.pc = "finally"]
    /\ UNCHANGED <<planVars, schedVars>>

\* the retry with increased resources, in the handler of the first OOMError
SecondAttempt(o) ==
    /\ wf.workflow = "recovery"
    /\ wf.pc = "second"
    /\ o \in MemoryTaskOutcomes(wf.DEMO_MODE)
    /\ wf' = IF o = "ok"
             THEN [wf EXCEPT
                      !.task_runs = Append(@, [task |-> "memory_intensive_task", outcome |-> o]),
                      !.results.second_attempt = "success",
                      !.results.final_status = "success_after_resource_increase",
                      !.results.recovery_steps = Append(@, "increased_resources_to_1gi"),
                      !.pc = "finally"]
             ELSE IF o = "oom"
             THEN [wf EXCEPT
                      !.task_runs = Append(@, [task |-> "memory_intensive_task", outcome |-> o]),
                      !.results.second_attempt = "failed_oom: " \o OOMText(wf.DEMO_MODE),
                      !.results.recovery_steps = Append(@, "oom_persisted_even_with_1gi"),
                      !.results.final_status = "failed_after_all_attempts",
                      !.pc = "finally"]
             ELSE [wf EXCEPT
                      !.task_runs = Append(@, [task |-> "memory_intensive_task", outcome |-> o]),
                      !.exc = "RuntimeError",
                      !.pc = "finally"]
    /\ UNCHANGED <<planVars, schedVars>>

\* mutant: the cleanup is skipped while an exception propagates
CleanupRunsOnlyOnReturn ==
    IF wf.exc = NoValue THEN <<[task |-> "always_succeeds", outcome |-> "ok"]>>
    ELSE <<>>

\* the runs of always_succeeds the finally block makes
CleanupRuns == <<[task |-> "always_succeeds", outcome |-> "ok"]>>

\* the finally block: the cleanup runs, then the workflow returns results or
\* the pending exception propagates
RecoveryFinally ==
    /\ wf.workflow = "recovery"
    /\ wf.pc = "finally"
    /\ LET cleaned == [wf.results EXCEPT !.cleanup = "Cleanup complete"]
       IN wf' = IF wf.exc = NoValue
                THEN [wf EXCEPT
                         !.task_runs = @ \o CleanupRuns,
                         !.results = cleaned,
                         !.ret = cleaned,
                         !.pc = "done"]
                ELSE [wf EXCEPT
                         !.task_runs = @ \o CleanupRuns,
                         !.results = cleaned,
                         !.pc = "raised"]
    /\ UNCHANGED <<planVars, schedVars>>

RecoveryNext ==
    \/ \E o \in {"ok", "oom", "other"} : FirstAttempt(o)
    \/ \E o \in {"ok", "oom", "other"} : SecondAttempt(o)
    \/ RecoveryFinally

(***************************************************************************)
(* The workflow tasks together: a run of one of the workflows.             *)
(***************************************************************************)
WorkflowInit == HybridInit \/ QualityInit \/ RecoveryInit

WorkflowNext == HybridNext \/ QualityNext \/ RecoveryNext

WorkflowSpec == WorkflowInit /\ [][WorkflowNext]_vars

(***************************************************************************)
(* Properties of the schedulers.                                           *)
(***************************************************************************)
\* the loop was left through the stall exit (no pending step was ready)
Stalled ==
    /\ pc \in {"collect", "returned", "raised"}
    /\ pending_steps # <<>>
    /\ ready_steps = <<>>

SchedEnded == pc \in {"returned", "raised"}

\* the dependency indices of step i
DepsOf(i) == SeqToSet(steps[i].dependencies)

\* the result the scheduler returned for step i
ReturnedFor(i) ==
    IF impl = "dynamic" THEN ret.agent_executions[i + 1] ELSE ret.results[i + 1]

\* C1: a run whose loop stalled (no pending step has all its dependencies
\* completed) ends with a normal return of the results completed so far; it
\* does not raise.
C1_StallReturnsPartial ==
    (Stalled /\ SchedEnded) => (pc = "returned" /\ exc = NoValue)

\* C2: a step is launched only after the result of each of its dependencies
\* has been stored in the completed map; no dependency of a launched step is
\* pending, in flight or launched in the same or a later wave.
C2_DependencyPrecedence ==
    \A i \in StepIdx :
        task_state[i] # "idle" =>
            \A d \in DepsOf(i) :
                /\ d \in StepIdx
                /\ d \in DOMAIN completed_results
                /\ task_state[d] = "returned"
                /\ completed_results[d] = slot[d]
                /\ wave_of[d] < wave_of[i]
                /\ d \notin SeqToSet(remaining_steps)

\* a step with two dependencies is in flight
C2_Witness ==
    \E i \in StepIdx :
        /\ task_state[i] = "running"
        /\ Len(steps[i].dependencies) = 2

\* C3: a failing step (its agent call raised) does not abort the run: the
\* scheduler does not end with that exception.
C3_FailureIsolated ==
    (\E i \in StepIdx : task_state[i] = "raised") => pc # "raised"

\* C4: when the scheduler returns, the i-th element of the returned list is
\* the result of the i-th input step, for every i.
C4_ResultOrdering ==
    pc = "returned" =>
        /\ Len(IF impl = "dynamic" THEN ret.agent_executions ELSE ret.results) = NumSteps
        /\ \A i \in StepIdx :
              /\ ReturnedFor(i) = slot[i]
              /\ ReturnedFor(i).task = steps[i].task
              /\ ReturnedFor(i).agent = steps[i].agent

\* the scheduler returned for a list in which a step depends on a later index
C4_Witness ==
    /\ pc = "returned"
    /\ \E i \in StepIdx : \E d \in DepsOf(i) : d > i

\* C5: no step of a later wave is launched while a step of an earlier wave is
\* in flight: when a step is launched, every step of every earlier wave has
\* returned and its result is in the completed map; and the ready set is only
\* computed when no step is in flight.
C5_WaveBarrier ==
    /\ \A i, j \in StepIdx :
          (wave_of[i] # 0 /\ wave_of[j] # 0 /\ wave_of[j] < wave_of[i]) =>
              /\ task_state[j] = "returned"
              /\ j \in DOMAIN completed_results
    /\ pc = "loop" =>
          \A j \in StepIdx :
              /\ task_state[j] \in {"idle", "returned"}
              /\ task_state[j] = "returned" => j \in DOMAIN completed_results

\* a step of the second wave is in flight
C5_Witness ==
    \E i \in StepIdx : task_state[i] = "running" /\ wave_of[i] = 2

\* what is left of a run: steps not launched, calls in flight, and the
\* position of the orchestrating coroutine
PcRank ==
    IF pc = "gather" THEN 3
    ELSE IF pc = "loop" THEN 2
    ELSE IF pc = "collect" THEN 1
    ELSE 0

WorkLeft ==
    4 * Cardinality({i \in StepIdx : task_state[i] = "idle"})
      + 2 * Cardinality({i \in StepIdx : task_state[i] = "running"})
      + PcRank

\* C6: the scheduling loop ends, and after at most N waves for N steps: every
\* wave takes at least one step out of the pending list (so the wave count
\* plus the pending steps never exceeds N); a run that has not ended can
\* always take a step (an agent call that is in flight can return, the loop
\* can go on or leave), and every step it takes uses up work that is left,
\* so no run goes on for ever.
C6_Termination ==
    /\ [](wave <= NumSteps)
    /\ [](pc = "loop" => wave + Len(pending_steps) <= NumSteps)
    /\ [](pc \in {"loop", "gather", "collect"} => ENABLED SchedNext)
    /\ [][WorkLeft' < WorkLeft]_vars

\* a list of three steps took three waves
C6_Witness ==
    /\ NumSteps = 3
    /\ wave = 3
    /\ pc = "returned"

(***************************************************************************)
(* Properties of execute_plan.                                             *)
(***************************************************************************)
PlanFailed == xpc = "done" /\ "error" \in DOMAIN result

\* C7: every value execute_plan returns has exactly one of the two shapes:
\* final_result and steps without error, or error and steps without
\* final_result.
C7_ResultExclusive ==
    xpc = "done" =>
        /\ "steps" \in DOMAIN result
        /\ ("final_result" \in DOMAIN result) # ("error" \in DOMAIN result)
        /\ DOMAIN result \subseteq {"final_result", "error", "steps"}

\* an error is returned together with a non-empty partial trace
C7_Witness == PlanFailed /\ Len(result.steps) >= 1

\* C8: once a step has failed, the tool of no later step is invoked (and no
\* tool is invoked twice).
C8_AbortOnFirstFailure ==
    /\ failed_at # 0 =>
          /\ caught # NoValue
          /\ \A j \in DOMAIN calls : j > failed_at => calls[j] = 0
    /\ \A j \in DOMAIN calls : calls[j] <= 1

\* a three-step plan whose second step failed: the third tool was not called
C8_Witness ==
    /\ PlanFailed
    /\ Len(plan.items) = 3
    /\ failed_at = 2
    /\ calls = <<1, 1, 0>>

\* C9 as stated: when step k fails, the returned trace holds the k-1
\* successful entries followed by an entry for the failing call.
C9_TraceIncludesFailingCall ==
    (PlanFailed /\ step_no >= 1) => Len(result.steps) = step_no

\* C9 as amended: when step k fails, the returned trace holds exactly the
\* entries of the k-1 successful steps, in plan order; the failing call has
\* no entry in it and is described by the error field only.
C9_TraceStopsBeforeFailure ==
    (PlanFailed /\ step_no >= 1) =>
        /\ Len(result.steps) = step_no - 1
        /\ result.error = caught
        /\ \A j \in 1..Len(result.steps) :
              /\ result.steps[j].tool = plan.items[j].tool
              /\ DOMAIN result.steps[j] = {"tool", "args", "result", "reasoning"}

\* the third step of a plan failed after two successful steps
C9_Witness ==
    /\ PlanFailed
    /\ step_no = 3
    /\ Len(result.steps) = 2

\* the first element of the plan is a tool call that names an unknown tool
FirstToolUnknown ==
    /\ plan.kind = "array"
    /\ Len(plan.items) >= 1
    /\ WellFormed(plan.items[1])
    /\ plan.items[1].tool \notin toolset

\* C10: a plan whose first step names a tool that is not in the resolved
\* toolset yields error "Unknown tool: <name>" with an empty steps list, and
\* no tool is invoked.
C10_UnknownToolOutcome ==
    (xpc = "done" /\ FirstToolUnknown) =>
        /\ DOMAIN result = {"error", "steps"}
        /\ result.error = "Unknown tool: " \o plan.items[1].tool
        /\ result.steps = <<>>
        /\ \A j \in DOMAIN calls : calls[j] = 0

\* execute_plan returned for a plan whose first step names missing_tool
C10_Witness ==
    /\ xpc = "done"
    /\ FirstToolUnknown
    /\ plan.items[1].tool = "missing_tool"
    /\ Len(plan.items) >= 2

\* C11 as stated: no failure of parsing or of sequential execution leaves
\* execute_plan as an exception; each is reported as a result that carries
\* an error field.
C11_ErrorsReportedInBand ==
    /\ xpc # "raised"
    /\ plan_exc = NoValue
    /\ (xpc = "done" /\ caught # NoValue) => "error" \in DOMAIN result

\* the argument is the literal "previous" in one of its letter cases
SaysPrevious(a) == a.t = "str" /\ a.v \in {"previous", "Previous", "PREVIOUS"}

\* the args the step at plan position j must be called with
ResolvedArgs(j) ==
    LET prev == IF j = 1 THEN NoneV ELSE steps_log[j - 1].result
        as == plan.items[j].args
    IN [k \in 1..Len(as) |-> IF SaysPrevious(as[k]) THEN prev ELSE as[k]]

\* C12: the args a step's tool is called with are the step's args with
\* every "previous" (in any letter case) replaced by the result of the step
\* before it, or by None at the first step, every other argument unchanged
\* and in place.  This holds for the steps in the trace and for the call
\* that failed.
C12_SentinelSubstitution ==
    /\ \A j \in 1..Len(steps_log) : steps_log[j].args = ResolvedArgs(j)
    /\ (failed_at # 0 /\ WellFormed(plan.items[failed_at])) =>
          args = ResolvedArgs(failed_at)

\* a second step written with PREVIOUS and Previous was called with the
\* first step's result 5 in both places
C12_Witness ==
    /\ xpc = "done"
    /\ Len(steps_log) >= 2
    /\ plan.items[2].args = <<StrV("PREVIOUS"), StrV("Previous")>>
    /\ steps_log[1].result = IntV(5)
    /\ steps_log[2].args = <<IntV(5), IntV(5)>>

\* C13: when no step of the plan fails, the result holds final_result and a
\* trace with one entry per plan step, in plan order, each with the tool
\* name, the resolved args and the result the tool produced; final_result is
\* the result of the last step (None for a plan without steps).  The plan
\* add(2, 3) yields final_result 5 and one entry with result 5.
C13_SuccessfulPlanResult ==
    (xpc = "done" /\ failed_at = 0 /\ caught = NoValue) =>
        /\ DOMAIN result = {"final_result", "steps"}
        /\ Len(result.steps) = Len(plan.items)
        /\ \A j \in 1..Len(result.steps) :
              /\ result.steps[j].tool = plan.items[j].tool
              /\ result.steps[j].args = ResolvedArgs(j)
              /\ result.steps[j].result
                    = Invoke(plan.items[j].tool, ResolvedArgs(j)).value
        /\ result.final_result
              = IF result.steps = <<>> THEN NoneV
                ELSE result.steps[Len(result.steps)].result
        /\ (Len(plan.items) = 1 /\ plan.items[1].args = <<IntV(2), IntV(3)>>) =>
              /\ result.final_result = IntV(5)
              /\ result.steps[1].result = IntV(5)

\* add(2, 3) followed by add("previous", 1) returned final_result 6
C13_Witness ==
    /\ xpc = "done"
    /\ "final_result" \in DOMAIN result
    /\ Len(result.steps) = 2
    /\ result.steps[2].args = <<IntV(5), IntV(1)>>
    /\ result.final_result = IntV(6)

\* the tool of the step at position failed_at was invoked and raised
ToolRaised == failed_at # 0 /\ calls[failed_at] = 1

\* C14: an exception a tool raises is caught inside execute_plan: it does
\* not leave the function, its text is the error field of the result, and
\* the result carries the trace of the steps completed before it.
C14_ToolExceptionCaptured ==
    /\ ToolRaised =>
          /\ xpc \in {"except", "done"}
          /\ plan_exc = NoValue
          /\ caught = Invoke(plan.items[failed_at].tool, args).text
    /\ (ToolRaised /\ xpc = "done") =>
          /\ DOMAIN result = {"error", "steps"}
          /\ result.error = Invoke(plan.items[failed_at].tool, args).text
          /\ result.steps = steps_log
          /\ Len(result.steps) = failed_at - 1
          /\ \A j \in 1..Len(result.steps) :
                result.steps[j].tool = plan.items[j].tool

\* add() was called without arguments at the second step: the TypeError's
\* text is the error, the first step's entry is the trace
C14_Witness ==
    /\ xpc = "done"
    /\ ToolRaised
    /\ failed_at = 2
    /\ result.error = "add() missing 2 required positional arguments: 'a' and 'b'"
    /\ Len(result.steps) = 1

\* the agent name of step i is none the routing chain knows
UnknownAgent(i) == steps[i].agent \notin KnownAgents

\* the in-band error value of a step with an unknown agent
UnknownAgentValue(i) ==
    IF impl = "dynamic"
    THEN slot[i].error = "Unknown agent: " \o steps[i].agent
    ELSE slot[i].observation = "ERROR: Unknown agent '" \o steps[i].agent \o "'"

\* C15: a step with an unknown agent name never raises; it returns an error
\* value, which is stored like any other result.  It stops nothing: a run
\* only ends with an exception when a step with a known agent raised or the
\* loop stalled, no step whose dependencies are all completed (steps with
\* unknown agents among them) is left out of a wave, and a run that returns
\* has dispatched and recorded every step.
C15_UnknownAgentInBand ==
    /\ \A i \in StepIdx :
          UnknownAgent(i) =>
              /\ task_state[i] # "raised"
              /\ task_state[i] = "returned" => UnknownAgentValue(i)
              /\ (task_state[i] = "returned" /\ pc \in {"loop", "collect", "returned"}) =>
                    /\ i \in DOMAIN completed_results
                    /\ completed_results[i] = slot[i]
    /\ pc = "raised" =>
          \/ Stalled
          \/ \E j \in StepIdx : ~UnknownAgent(j) /\ task_state[j] = "raised"
    /\ pc = "gather" =>
          \A i \in StepIdx :
              task_state[i] = "idle" =>
                  \E d \in DepsOf(i) : d \notin DOMAIN completed_results
    /\ pc = "returned" =>
          \A i \in StepIdx :
              task_state[i] = "returned" /\ i \in DOMAIN completed_results

\* a run returned in which a step with an unknown agent had a sibling in
\* its wave and a step of a later wave depended on it
C15_Witness ==
    /\ pc = "returned"
    /\ \E d, sib, i \in StepIdx :
          /\ UnknownAgent(d)
          /\ sib # d /\ wave_of[sib] = wave_of[d]
          /\ d \in DepsOf(i)
          /\ ~UnknownAgent(i)

\* C16 as stated: the wait for a wave ends only when every step launched in
\* it has completed or failed: outside the wait no step is in flight.
C16_WaveEndsWhenAllDone ==
    pc # "gather" => \A i \in StepIdx : task_state[i] # "running"

\* the tool-call arrays the text t holds: the items of every part of t that
\* is the text of a JSON array of well-formed tool-call objects
ToolCallArrays(t) ==
    { ArrayItems(Slice(t, lo, hi)) :
        <<lo, hi>> \in { w \in (1..Len(t)) \X (1..Len(t)) :
                            /\ w[1] < w[2]
                            /\ t[w[1]].kind = "lb"
                            /\ t[w[2]].kind = "rb"
                            /\ IsArrayText(Slice(t, w[1], w[2]))
                            /\ \A k \in (w[1] + 1)..(w[2] - 1) :
                                  t[k].kind # "comma" => WellFormed(t[k]) } }

\* C17 as stated: whenever the response holds a JSON array of well-formed
\* tool-call objects (bare, fenced, or with prose around it), parsing does
\* not fail and the plan is that array, equal in length and content.
C17_ParserTolerance ==
    (xpc # "parse" /\ ToolCallArrays(raw_plan) # {}) =>
        /\ xpc # "raised"
        /\ plan.kind = "array"
        /\ plan.items \in ToolCallArrays(raw_plan)

\* the text t holds no array literal: no bracket, and no object literal with
\* an args list inside
NoArrayLiteral(t) ==
    \A k \in 1..Len(t) :
        /\ t[k].kind \notin {"lb", "rb"}
        /\ t[k].kind = "object" => "args" \notin t[k].keys

\* C18 as stated: a response that holds no array literal makes parsing fail
\* with the parse error; it never becomes a plan, empty or not, and no step
\* is run.
C18_ParserRejection ==
    (xpc # "parse" /\ NoArrayLiteral(raw_plan)) =>
        /\ xpc = "raised"
        /\ plan_exc = ParseError
        /\ plan = NoPlan
        /\ step_no = 0

\* C19 as stated (execute_plan): the logger is called exactly once for each
\* tool dispatch: once for each completed call, and once for the dispatch
\* that failed on an unknown tool or on an exception of the tool.
C19_OneLogPerDispatch ==
    /\ xpc = "loop" => Len(plan_log) = step_no
    /\ (xpc = "done" /\ failed_at # 0 /\ WellFormed(plan.items[failed_at])) =>
          Len(plan_log) = failed_at

\* at-most-once dispatch in a scheduler run
SchedAtMostOnce ==
    /\ \A i \in StepIdx :
          /\ launches[i] <= 1
          /\ (launches[i] = 1) = (wave_of[i] # 0)
    /\ \A k \in 1..Len(pending_steps) :
          pending_steps[k] \notin DOMAIN completed_results
    /\ \A k \in 1..Len(remaining_steps) :
          remaining_steps[k] \notin DOMAIN completed_results
    /\ pc = "gather" =>
          \A k \in 1..Len(ready_steps) : wave_of[ready_steps[k]] = wave

\* at-most-once invocation in a run of execute_plan: no tool of a plan step
\* is invoked twice, the step that failed is the last one invoked, and the
\* loop never goes back to a plan position
PlanAtMostOnce ==
    /\ \A j \in DOMAIN calls : calls[j] <= 1
    /\ \A j \in DOMAIN calls : j > step_no => calls[j] = 0
    /\ failed_at # 0 =>
          /\ failed_at = step_no
          /\ xpc \in {"except", "done"}
    /\ Len(steps_log) <= step_no

\* C20: no retries.  In a run of execute_plan the tool of each plan step is
\* invoked at most once and nothing is invoked after a failure; in a
\* scheduler run each step is dispatched at most once, and a step that has
\* completed is in neither the pending nor the remaining list and is in the
\* ready list only as a member of the wave that ran it.
C20_NoRetries == SchedAtMostOnce /\ PlanAtMostOnce

\* a scheduler returned after three waves with every step dispatched once
C20_Witness ==
    /\ pc = "returned"
    /\ wave = 3
    /\ \A i \in StepIdx : launches[i] = 1

(***************************************************************************)
(* Properties of the workflow tasks.                                       *)
(***************************************************************************)
\* the positions at which a workflow has ended
WorkflowEnded == wf.pc \in {"done", "raised"}

\* the runs of task t so far
RunsOf(t) == {k \in 1..Len(wf.task_runs) : wf.task_runs[k].task = t}

\* C21: hybrid_workflow performs at most max_iterations iterations: the loop
\* variable, the recorded iterations and the runs of execute_mini_plan never
\* exceed max_iterations; an iteration whose decision achieved the goal is the
\* last one and ends the loop; the workflow returns either right after such an
\* iteration or after max_iterations iterations without one; and the returned
\* total_iterations is at most max_iterations.
C21_IterationBound ==
    wf.workflow = "hybrid" =>
        /\ wf.iter_num <= wf.max_iterations
        /\ Len(wf.iterations) <= wf.iter_num
        /\ Cardinality(RunsOf("execute_mini_plan")) <= wf.iter_num
        /\ \A k \in 1..Len(wf.iterations) :
              wf.iterations[k].goal_achieved =>
                  /\ k = Len(wf.iterations)
                  /\ wf.pc # "loop"
        /\ wf.pc = "done" =>
              /\ wf.ret.total_iterations = Len(wf.iterations)
              /\ wf.ret.total_iterations <= wf.max_iterations
              /\ IF Truthy(wf.goal_achieved)
                 THEN /\ wf.iterations # <<>>
                      /\ wf.iterations[Len(wf.iterations)].goal_achieved
                      /\ wf.iterations[Len(wf.iterations)].iteration_number = wf.iter_num
                 ELSE /\ Len(wf.iterations) = wf.max_iterations
                      /\ \A k \in 1..Len(wf.iterations) : ~wf.iterations[k].goal_achieved

\* hybrid_workflow returned after running all of two or more iterations
\* without a decision that achieved the goal
C21_Witness ==
    /\ wf.workflow = "hybrid"
    /\ wf.pc = "done"
    /\ wf.max_iterations >= 2
    /\ wf.ret.total_iterations = wf.max_iterations
    /\ ~Truthy(wf.ret.goal_achieved)

\* C22: the critique/revise loop of reflexion_workflow and the quality loop
\* of research_report_workflow make at most max_iterations critiques; a
\* recorded iteration whose score is at least quality_threshold is the last
\* one and ends the loop; the workflow returns either right after such an
\* iteration or after max_iterations critiques; and quality_threshold_met of
\* reflexion_workflow is true exactly when the last recorded iteration's
\* score is at least the threshold.
C22_QualityLoopExit ==
    wf.workflow \in QualityWorkflows =>
        /\ wf.iter_num <= wf.max_iterations
        /\ Len(wf.iterations) <= wf.iter_num
        /\ \A k \in 1..Len(wf.iterations) :
              (/\ wf.iterations[k].quality_score.t = "int"
               /\ wf.iterations[k].quality_score.v >= wf.quality_threshold) =>
                  /\ k = Len(wf.iterations)
                  /\ wf.pc # "loop"
        /\ wf.pc = "done" =>
              \/ /\ wf.iterations # <<>>
                 /\ wf.iterations[Len(wf.iterations)].quality_score.v >= wf.quality_threshold
              \/ Len(wf.iterations) = wf.max_iterations
        /\ wf.workflow = "reflexion" =>
              (wf.quality_threshold_met <=>
                  /\ wf.iterations # <<>>
                  /\ wf.iterations[Len(wf.iterations)].quality_score.v >= wf.quality_threshold)

\* reflexion_workflow returned with the threshold met by its second or a
\* later critique
C22_Witness ==
    /\ wf.workflow = "reflexion"
    /\ wf.pc = "done"
    /\ Len(wf.iterations) >= 2
    /\ wf.ret.quality_threshold_met
    /\ wf.ret.final_quality_score.v >= wf.quality_threshold

\* C23: in demo_error_recovery_workflow always_succeeds is run exactly once
\* on every path: it has not run before the finally block, and when the
\* workflow has ended, by returning or by an exception other than OOMError
\* leaving it, it has run once, as the last task, and results holds its value.
C23_CleanupExactlyOnce ==
    wf.workflow = "recovery" =>
        IF WorkflowEnded
        THEN /\ Cardinality(RunsOf("always_succeeds")) = 1
             /\ wf.task_runs[Len(wf.task_runs)].task = "always_succeeds"
             /\ wf.results.cleanup = "Cleanup complete"
        ELSE /\ RunsOf("always_succeeds") = {}
             /\ wf.results.cleanup = "None"

\* the retry raised an error other than OOMError, the cleanup ran, and the
\* error left the workflow
C23_Witness ==
    /\ wf.workflow = "recovery"
    /\ wf.pc = "raised"
    /\ Len(wf.task_runs) = 3
    /\ wf.task_runs[2].outcome = "other"
    /\ wf.task_runs[3].task = "always_succeeds"

\* the final_status that belongs to the outcomes of the attempts made
StatusOfAttempts ==
    IF wf.task_runs[1].outcome = "ok" THEN "success_on_first_try"
    ELSE IF wf.task_runs[2].outcome = "ok" THEN "success_after_resource_increase"
    ELSE "failed_after_all_attempts"

\* C24: memory_intensive_task is attempted at most twice, a second attempt
\* is made only after the first one failed with OOMError, and whenever the
\* workflow returns, final_status names the attempt that succeeded (or that
\* both failed) and is never "unknown".
C24_RecoveryPhases ==
    wf.workflow = "recovery" =>
        /\ Cardinality(RunsOf("memory_intensive_task")) <= 2
        /\ 2 \in RunsOf("memory_intensive_task") =>
              /\ wf.task_runs[1].task = "memory_intensive_task"
              /\ wf.task_runs[1].outcome = "oom"
        /\ wf.pc = "done" =>
              /\ wf.ret = wf.results
              /\ 1 \in RunsOf("memory_intensive_task")
              /\ wf.task_runs[1].outcome = "oom" => 2 \in RunsOf("memory_intensive_task")
              /\ wf.results.final_status = StatusOfAttempts
              /\ wf.results.final_status # "unknown"

\* the workflow returned after the retry with increased resources succeeded
C24_Witness ==
    /\ wf.workflow = "recovery"
    /\ wf.pc = "done"
    /\ Cardinality(RunsOf("memory_intensive_task")) = 2
    /\ wf.ret.final_status = "success_after_resource_increase"
    /\ wf.ret.cleanup = "Cleanup complete"

(***************************************************************************)
(* Properties of the waves.                                                *)
(***************************************************************************)
MaxOf(S) == CHOOSE m \in S : \A n \in S : n <= m

\* the steps launched in wave w
WaveSteps(w) == {i \in StepIdx : wave_of[i] = w}

\* C25: while a wave is in flight (the completed map and the pending list are
\* those the wave started with), the steps launched in it are exactly the
\* pending steps all of whose dependency indices are keys of the completed
\* map; ready_steps holds them and remaining_steps every other pending step.
C25_WaveMaximality ==
    pc = "gather" =>
        /\ \A i \in StepIdx :
              wave_of[i] = wave <=>
                  /\ i \in SeqToSet(pending_steps)
                  /\ DepsOf(i) \subseteq DOMAIN completed_results
        /\ SeqToSet(ready_steps) = WaveSteps(wave)
        /\ SeqToSet(remaining_steps) = SeqToSet(pending_steps) \ WaveSteps(wave)

\* the second wave is in flight and a pending step was left for a later wave
C25_Witness ==
    /\ pc = "gather"
    /\ wave = 2
    /\ ready_steps # <<>>
    /\ remaining_steps # <<>>
    /\ \E i \in SeqToSet(remaining_steps) : DepsOf(i) \subseteq StepIdx

\* the length of the longest dependency chain that ends in step i, followed
\* for at most fuel steps; dependency entries that are no step index are
\* skipped
RECURSIVE ChainDepth(_, _)
ChainDepth(i, fuel) ==
    IF fuel = 0 THEN 0
    ELSE 1 + MaxOf({0} \cup {ChainDepth(d, fuel - 1) : d \in DepsOf(i) \cap StepIdx})

\* step i lies on a dependency cycle or depends, directly or not, on a step
\* that does: its chains have no end
BehindCycle(i) == ChainDepth(i, NumSteps + 1) = NumSteps + 1

\* every dependency entry is the index of a step and no cycle exists
AcyclicInRange ==
    \A i \in StepIdx :
        /\ DepsOf(i) \subseteq StepIdx
        /\ ~BehindCycle(i)

\* C26: a step without dependencies is launched in wave 1; every launched
\* step is launched in wave 1 + max(wave of its dependencies), which is the
\* length of its longest dependency chain; and for an acyclic in-range
\* graph the loop never stalls, so a run that no step's exception ends
\* launches every step in that wave.
C26_WaveAssignment ==
    /\ \A i \in StepIdx :
          /\ (steps[i].dependencies = <<>> /\ wave >= 1) => wave_of[i] = 1
          /\ wave_of[i] > 0 =>
                /\ wave_of[i] = 1 + MaxOf({0} \cup {wave_of[d] : d \in DepsOf(i)})
                /\ wave_of[i] = ChainDepth(i, NumSteps + 1)
    /\ AcyclicInRange =>
          /\ ~Stalled
          /\ pc \in {"collect", "returned"} => \A i \in StepIdx : wave_of[i] > 0

\* a run over a chain of three steps returned: the last step ran in wave 3
C26_Witness ==
    /\ pc = "returned"
    /\ AcyclicInRange
    /\ \E i \in StepIdx : wave_of[i] = 3 /\ Len(steps[i].dependencies) = 1

StoredWaves ==
    IF pc = "gather" \/ (pc = "raised" /\ GatherFailed) THEN wave - 1 ELSE wave

\* C28: the completed map changes only by the orchestrating coroutine's merge
\* after gather returned: while a wave is in flight the map holds exactly
\* the results of the earlier waves, also when steps of the wave have
\* already returned; a returned step's pair sits in its own slot, carries its
\* own index's step, and is what the map holds for it after the merge.
C28_CompletedMapDiscipline ==
    /\ DOMAIN completed_results =
           {i \in StepIdx : wave_of[i] >= 1 /\ wave_of[i] <= StoredWaves}
    /\ \A i \in StepIdx :
          /\ i \in DOMAIN completed_results => completed_results[i] = slot[i]
          /\ task_state[i] = "returned" =>
                /\ slot[i].agent = steps[i].agent
                /\ slot[i].task = steps[i].task
          /\ task_state[i] \in {"idle", "running", "raised"} => slot[i] = NoRecord

\* the second wave is in flight, one of its steps has returned and another
\* one is still running; the map holds the first wave only
C28_Witness ==
    /\ pc = "gather"
    /\ wave = 2
    /\ \E i, j \in WaveSteps(2) :
          /\ task_state[i] = "returned"
          /\ task_state[j] = "running"
    /\ DOMAIN completed_results = WaveSteps(1)

\* C29: while a launched step has not completed, its wave does not complete:
\* the orchestrating coroutine stays in gather (or an exception of another
\* step of the wave has left the run), nothing of the wave is stored, no
\* step of a later wave is launched and the run has not returned, also when
\* every other step of the wave has finished.
C29_HungStepBlocksWave ==
    \A i \in StepIdx :
        task_state[i] = "running" =>
            /\ pc \in {"gather", "raised"}
            /\ pc = "raised" => GatherFailed
            /\ ret = NoRecord
            /\ wave_of[i] = wave
            /\ \A j \in StepIdx : wave_of[j] <= wave_of[i]
            /\ WaveSteps(wave) \cap DOMAIN completed_results = {}
            /\ pending_steps # <<>>

\* one step of a wave is still running while every other step of the wave
\* has returned and a step of a later wave is waiting
C29_Witness ==
    /\ pc = "gather"
    /\ Len(ready_steps) >= 2
    /\ \E i \in SeqToSet(ready_steps) :
          /\ task_state[i] = "running"
          /\ \A j \in SeqToSet(ready_steps) \ {i} : task_state[j] = "returned"
    /\ remaining_steps # <<>>

\* the line execute_step renders for the dependency d
ContextLine(d) ==
    IF impl = "dynamic"
    THEN "Step " \o Str(d) \o " (" \o completed_results[d].agent \o "): "
             \o completed_results[d].result_summary
    ELSE "Result from step " \o Str(d) \o ": " \o completed_results[d].observation

\* the lines of the dependencies of step i, in the order they are listed
RECURSIVE ContextLines(_, _)
ContextLines(i, k) ==
    IF k = 0 THEN ""
    ELSE IF k = 1 THEN ContextLine(steps[i].dependencies[1])
    ELSE ContextLines(i, k - 1) \o "\n" \o ContextLine(steps[i].dependencies[k])

ContextHeader ==
    IF impl = "dynamic" THEN "Context from previous steps:\n" ELSE "Context:\n"

\* C30: the task text handed to the agent of a launched step is the step's
\* own task when its dependency list is empty, and otherwise the context
\* header, one rendered line per dependency in listed order, each from the
\* completed map, and the own task after "Your task: "; the task in the
\* step's returned result is the own task.
C30_DependencyContext ==
    \A i \in StepIdx :
        /\ (wave_of[i] > 0 /\ task_in[i] # NoValue) =>
              task_in[i] =
                  IF steps[i].dependencies = <<>> THEN steps[i].task
                  ELSE ContextHeader
                       \o ContextLines(i, Len(steps[i].dependencies))
                       \o "\n\nYour task: " \o steps[i].task
        /\ wave_of[i] > 0 =>
              (task_in[i] = NoValue <=> ~(DepsOf(i) \subseteq DOMAIN completed_results))
        /\ task_state[i] = "returned" => slot[i].task = steps[i].task

\* a returned step with two dependencies was handed their two lines
C30_Witness ==
    \E i \in StepIdx :
        /\ Len(steps[i].dependencies) = 2
        /\ task_state[i] = "returned"
        /\ steps[i].dependencies[1] > steps[i].dependencies[2]
        /\ task_in[i] # steps[i].task
        /\ slot[i].task = steps[i].task

(***************************************************************************)
(* Properties of the scope and of the parser.                              *)
(***************************************************************************)
\* the plan positions whose iteration has begun
BegunSteps == IF Iterable(plan) THEN 1..step_no ELSE {}

\* C31: execute_plan resolves the toolset of the scope it is called with: the
\* tools of that agent when the scope is a key of the per-agent registry,
\* and the whole global registry when it is not. Under an unknown scope the
\* resolution never fails, every step that names a globally registered
\* tool is dispatched, and "Unknown tool" is reported only for a name that
\* no registry holds.
C31_ScopeFallback ==
    /\ agent \in DOMAIN agent_tools => toolset = agent_tools[agent]
    /\ agent \notin DOMAIN agent_tools =>
          /\ toolset = tool_registry
          /\ xpc = "raised" => plan_exc = ParseError
          /\ \A k \in BegunSteps :
                (WellFormed(plan.items[k]) /\ plan.items[k].tool \in tool_registry)
                    => calls[k] = 1
          /\ \A k \in BegunSteps :
                (WellFormed(plan.items[k]) /\ failed_at = k
                 /\ caught = UnknownToolError(plan.items[k].tool))
                    => plan.items[k].tool \notin tool_registry

\* a plan run under the unknown scope dispatched a math tool and a string
\* tool and returned their results
C31_Witness ==
    /\ agent = "ghost"
    /\ xpc = "done"
    /\ "final_result" \in DOMAIN result
    /\ \E j, k \in 1..Len(steps_log) :
          /\ steps_log[j].tool = "add"
          /\ steps_log[k].tool = "word_count"
          /\ steps_log[k].result = IntV(2)

\* the parsing has ended with plan bound
PlanBound == xpc # "parse" /\ plan # NoPlan

\* C32: the first parsing strategy accepts the decoded text as the plan only
\* when it is an array of objects that each hold a tool key and an args
\* key: whenever json.loads of the whole response succeeds and plan is
\* bound, plan is such an array.
C32_DirectParseValidation ==
    (PlanBound /\ JsonLoads(raw_plan).ok) =>
        /\ plan.kind = "array"
        /\ \A k \in 1..Len(plan.items) : WellFormed(plan.items[k])

\* the group of the leftmost match of the fence pattern
FenceGroup(t) == Slice(t, FenceSearch(t).lo, FenceSearch(t).hi)

\* the outcome of the three strategies in their order: which one decoded
\* (via) and what
ParseOf(t) ==
    LET direct == JsonLoads(t)
        fence == FenceSearch(t)
        fenced == JsonLoads(Slice(t, fence.lo, fence.hi))
        bracket == BracketSearch(t)
    IN IF direct.ok
       THEN [ok |-> TRUE, via |-> "direct", value |-> direct.value]
       ELSE IF fence.found /\ fenced.ok
       THEN [ok |-> TRUE, via |-> "fenced", value |-> fenced.value]
       ELSE IF bracket.found /\ bracket.ok
       THEN [ok |-> TRUE, via |-> "bracket", value |-> bracket.value]
       ELSE [ok |-> FALSE, via |-> "none", value |-> NoRecord]

\* C33: the strategies are tried in the order direct parse, fenced block,
\* first bracketed array: the plan is what the first strategy that decodes
\* yields (the bracket search also when a fenced block was found and its
\* content did not decode), and the parse error is raised exactly when all
\* three failed.
C33_StrategyOrder ==
    LET parsed == ParseOf(raw_plan)
    IN /\ PlanBound => (parsed.ok /\ plan = parsed.value)
       /\ xpc = "raised" => (~parsed.ok /\ plan_exc = ParseError)
       /\ (xpc # "parse" /\ ~parsed.ok) => xpc = "raised"

\* a fenced array after prose that cites "[1]" was taken from the fence, and
\* so was not the "[1]" the bracket search finds
C33_Witness ==
    /\ PlanBound
    /\ ParseOf(raw_plan).via = "fenced"
    /\ BracketSearch(raw_plan).ok
    /\ BracketSearch(raw_plan).value # plan
    /\ Len(plan.items) = 1
    /\ WellFormed(plan.items[1])

\* where the leftmost match of the bracket pattern starts
BracketStart(t) ==
    MinOf({s \in 1..Len(t) :
              \/ t[s].kind = "lb" /\ BracketEnd(t, s) # 0
              \/ t[s].kind = "object" /\ "args" \in t[s].keys})

\* the substring the strategy that decoded t extracted: the group of the
\* fence pattern, or the match of the bracket pattern
Extracted(t) ==
    IF ParseOf(t).via = "fenced" THEN FenceGroup(t)
    ELSE IF t[BracketStart(t)].kind = "object"
    THEN ArrayText(ArgsItems(t[BracketStart(t)]))
    ELSE Slice(t, BracketStart(t), BracketEnd(t, BracketStart(t)))

TraceAppends ==
    \/ steps_log' = steps_log
    \/ /\ Len(steps_log') = Len(steps_log) + 1
       /\ SubSeq(steps_log', 1, Len(steps_log)) = steps_log

\* C35: the steps trace only grows by appending: every step of execute_plan
\* leaves it alone or appends one entry, so an entry is never modified or
\* removed; entry i belongs to plan step i; the trace is never longer than
\* the plan; and the trace execute_plan returns is the trace as it stands,
\* so every earlier trace is a prefix of it.
C35_AppendOnlyTrace ==
    /\ [][TraceAppends]_vars
    /\ [](Len(steps_log) <= Len(plan.items))
    /\ [](\A i \in 1..Len(steps_log) :
             /\ steps_log[i].tool = plan.items[i].tool
             /\ steps_log[i].reasoning = plan.items[i].reasoning
             /\ calls[i] = 1)
    /\ [](xpc = "done" => result.steps = steps_log)

\* a plan of three steps failed at its third step and returned the two
\* entries of the first two steps
C35_Witness ==
    /\ xpc = "done"
    /\ Len(plan.items) = 3
    /\ failed_at = 3
    /\ Len(result.steps) = 2
    /\ result.steps[2].tool = plan.items[2].tool

(***************************************************************************)
(* Properties of the workflow results.                                     *)
(***************************************************************************)
\* C36: whenever the loop of hybrid_workflow ends without a decision that
\* achieved the goal, for every max_iterations from 0 on, the workflow
\* returns a HybridResult whose goal_achieved is false and whose
\* final_answer is "Could not achieve goal in <max_iterations>
\* iterations..."; it does not fail on a name that was never bound.
C36_NoSuccessResult ==
    wf.workflow = "hybrid" =>
        /\ wf.exc # "UnboundLocalError: results_summary"
        /\ (wf.pc = "done" /\ ~Truthy(wf.goal_achieved)) =>
              /\ ~Truthy(wf.ret.goal_achieved)
              /\ wf.ret.final_answer =
                     StrV("Could not achieve goal in " \o Str(wf.max_iterations)
                          \o " iterations. Last results: " \o wf.results_summary)

(***************************************************************************)
(* Properties of the aggregation and of errored dependencies.              *)
(***************************************************************************)
\* the steps whose execution has a non-empty summary and an empty error
GoodSteps == {i \in StepIdx : slot[i].result_summary # "" /\ slot[i].error = ""}

\* the members of a set of step indices in increasing order
InStepOrder(S) ==
    CHOOSE q \in [1..Cardinality(S) -> S] :
        \A a, b \in 1..Cardinality(S) : a < b => q[a] < q[b]

\* C37: when execute_dynamic_task returns, agent_executions holds one entry
\* for every planned step, the entry of a step that ended with an error
\* included with its error text in the error field, and final_result joins
\* with " | ", in the order of the step list, exactly the steps with a
\* non-empty result summary and an empty error, or is "No results" when
\* there is no such step.
C37_Aggregation ==
    (impl = "dynamic" /\ pc = "returned") =>
        /\ Len(ret.agent_executions) = NumSteps
        /\ \A i \in StepIdx :
              /\ task_state[i] = "returned"
              /\ ret.agent_executions[i + 1] = slot[i]
              /\ ret.agent_executions[i + 1].agent = steps[i].agent
              /\ UnknownAgent(i) =>
                    ret.agent_executions[i + 1].error
                        = "Unknown agent: " \o steps[i].agent
              /\ ~UnknownAgent(i) =>
                    ret.agent_executions[i + 1].error \in {"", "plan failed"}
        /\ ret.final_result =
              IF GoodSteps = {} THEN "No results"
              ELSE Join([k \in 1..Cardinality(GoodSteps) |->
                            steps[InStepOrder(GoodSteps)[k]].agent \o ": "
                                \o slot[InStepOrder(GoodSteps)[k]].result_summary],
                        " | ")

\* execute_dynamic_task returned three executions: the middle step of the
\* list failed in its agent, the first and the last one have a summary, and
\* the last one ran in an earlier wave than the first
C37_Witness ==
    /\ impl = "dynamic" /\ pc = "returned"
    /\ NumSteps = 3
    /\ ret.agent_executions[2].error = "plan failed"
    /\ GoodSteps = {0, 2}
    /\ wave_of[2] < wave_of[0]
    /\ ret.final_result # "No results"

\* the result of step d is an error value: its agent reported a failure or
\* its agent name is unknown
ErrorValue(d) ==
    /\ d \in StepIdx
    /\ task_state[d] = "returned"
    /\ IF impl = "dynamic" THEN slot[d].error # ""
       ELSE UnknownAgent(d) \/ slot[d].observation = ""

\* once the ready set has been computed, a step is only still waiting when
\* one of its dependencies is not in the completed map, and a launched step
\* with an errored dependency runs in the wave after the last of its
\* dependencies with the result text of the failed dependency in its task
ErroredCountsAsDone ==
    /\ pc # "loop" =>
          \A i \in StepIdx :
              task_state[i] = "idle" =>
                  \E d \in DepsOf(i) : d \notin DOMAIN completed_results
    /\ \A i \in StepIdx :
          \A d \in DepsOf(i) :
              (ErrorValue(d) /\ d \in DOMAIN completed_results
                             /\ task_state[i] # "idle") =>
                  /\ \A e \in DepsOf(i) : e \in DOMAIN completed_results
                                          /\ wave_of[e] < wave_of[i]
                  /\ \E e \in DepsOf(i) : wave_of[i] = wave_of[e] + 1
                  /\ completed_results[d] = slot[d]
                  /\ task_in[i] = ContextHeader
                                      \o ContextLines(i, Len(steps[i].dependencies))
                                      \o "\n\nYour task: " \o steps[i].task

\* a launch dispatches every waiting step whose dependencies are all in the
\* completed map, whether their results are error values or not
DispatchesSatisfied ==
    (pc = "loop" /\ pc' = "gather") =>
        \A i \in StepIdx :
            (task_state[i] = "idle" /\ DepsOf(i) \subseteq DOMAIN completed_results) =>
                /\ task_state'[i] = "running"
                /\ wave_of'[i] = wave + 1

\* C38: a dependency that finished with an error value (a failure reported
\* by its agent, or an unknown agent) counts as satisfied: the step that
\* depends on it is dispatched in the next wave, with whatever result text
\* the failed dependency produced; only a dependency that is not in the
\* completed map keeps a step waiting.
C38_ErroredDependencySatisfied ==
    /\ [][DispatchesSatisfied]_vars
    /\ []ErroredCountsAsDone

\* execute_mini_plan returned for a list of three steps in which the last
\* step depended on a step with an unknown agent and on a step whose agent
\* reported a failure
C38_Witness ==
    /\ impl = "mini" /\ pc = "returned"
    /\ NumSteps = 3
    /\ DepsOf(2) = {0, 1}
    /\ UnknownAgent(0) /\ ErrorValue(0)
    /\ ~UnknownAgent(1) /\ ErrorValue(1)
    /\ wave_of[2] = 2
    /\ slot[2].observation # ""

(***************************************************************************)
(* The two loops as one scheduler.                                         *)
(***************************************************************************)
\* the indices with a stored result
Done == DOMAIN completed_results

\* the pending steps whose dependencies all have a stored result, and the
\* other pending steps, both in list order
ReadyOf == SelectSeq(pending_steps, LAMBDA i : DepsOf(i) \subseteq Done)

WaitingOf == SelectSeq(pending_steps, LAMBDA i : ~(DepsOf(i) \subseteq Done))

\* the single scheduler: one wave is every ready pending step
OneLaunch ==
    /\ pc = "loop" /\ pc' = "gather"
    /\ pending_steps # <<>> /\ ReadyOf # <<>>
    /\ ready_steps' = ReadyOf
    /\ remaining_steps' = WaitingOf
    /\ wave' = wave + 1
    /\ \A i \in StepIdx :
          IF i \in SeqToSet(ReadyOf)
          THEN task_state'[i] = "running" /\ wave_of'[i] = wave + 1
          ELSE task_state'[i] = task_state[i] /\ wave_of'[i] = wave_of[i]
    /\ UNCHANGED <<completed_results, pending_steps, exc>>

\* one launched step returns its value
OneFinish ==
    /\ pc = "gather" /\ pc' = "gather"
    /\ \E i \in SeqToSet(ready_steps) :
          /\ task_state[i] = "running"
          /\ task_state' = [task_state EXCEPT ![i] = "returned"]
    /\ UNCHANGED <<completed_results, pending_steps, ready_steps,
                   remaining_steps, wave, wave_of, exc>>

\* the wave is over: its results are stored, the waiting steps stay pending
OneStore ==
    /\ pc = "gather" /\ pc' = "loop"
    /\ \A i \in SeqToSet(ready_steps) : task_state[i] = "returned"
    /\ DOMAIN completed_results' = Done \cup SeqToSet(ready_steps)
    /\ \A i \in Done \ SeqToSet(ready_steps) :
          completed_results'[i] = completed_results[i]
    /\ pending_steps' = remaining_steps
    /\ UNCHANGED <<ready_steps, remaining_steps, task_state, wave, wave_of, exc>>

\* the loop ends: nothing is pending, or no pending step is ready
OneLoopEnd ==
    /\ pc = "loop" /\ pc' = "collect"
    /\ pending_steps = <<>> \/ ReadyOf = <<>>
    /\ UNCHANGED <<completed_results, pending_steps, task_state, wave, wave_of, exc>>

\* the results are listed in step order: a return when every step has a
\* stored result, KeyError at the first missing index otherwise
OneEnd ==
    /\ pc = "collect"
    /\ IF StepIdx \subseteq Done
       THEN pc' = "returned" /\ exc' = exc
       ELSE pc' = "raised" /\ exc' = "KeyError"
    /\ UNCHANGED <<completed_results, pending_steps, ready_steps,
                   remaining_steps, task_state, wave, wave_of>>

OneScheduler == OneLaunch \/ OneFinish \/ OneStore \/ OneLoopEnd \/ OneEnd

\* the wave of a launched step is fixed by the step list: one more than the
\* latest wave among its dependencies
WavesFromList ==
    \A i \in StepIdx :
        wave_of[i] > 0 =>
            /\ \A d \in DepsOf(i) : d \in StepIdx /\ 0 < wave_of[d] /\ wave_of[d] < wave_of[i]
            /\ \/ DepsOf(i) = {} /\ wave_of[i] = 1
               \/ \E d \in DepsOf(i) : wave_of[i] = wave_of[d] + 1

\* C40: for every step list the loop of execute_dynamic_task and the loop of
\* execute_mini_plan take the steps of one scheduler that does not look at
\* which of the two runs: every wave is the list of the pending steps whose
\* dependencies are stored, the wave of a step is fixed by the step list,
\* and the run ends with all steps done or at the stall of that scheduler.
C40_SchedulerEquivalence ==
    /\ [][OneScheduler]_vars
    /\ []WavesFromList

\* execute_mini_plan ran two waves and then stalled with a step left over
C40_Witness ==
    /\ impl = "mini"
    /\ pc = "raised" /\ exc = "KeyError"
    /\ Stalled
    /\ wave = 2
    /\ Len(pending_steps) = 1

(***************************************************************************)
(* Properties of the content reflexion_workflow returns.                   *)
(***************************************************************************)
\* the calls of editor_agent so far
EditorCalls == Cardinality(RunsOf("editor_agent"))

\* C39: in reflexion_workflow the editor is called at most
\* max_iterations - 1 times (not at all when max_iterations is 0) and never
\* after the last critique: every call follows a recorded critique that is
\* not the last one, so when the workflow returns, final_content is the
\* content of the last recorded iteration and final_quality_score is that
\* iteration's quality_score.
C39_CritiquedFinalContent ==
    wf.workflow = "reflexion" =>
        /\ EditorCalls <= IF wf.max_iterations >= 1 THEN wf.max_iterations - 1 ELSE 0
        /\ EditorCalls <= Len(wf.iterations)
        /\ (wf.pc \in {"after", "done"} /\ wf.iterations # <<>>) =>
              /\ EditorCalls = Len(wf.iterations) - 1
              /\ wf.current_content = wf.iterations[Len(wf.iterations)].content
        /\ wf.pc = "done" =>
              /\ wf.iterations # <<>>
              /\ wf.ret.iterations = wf.iterations
              /\ wf.ret.final_content = wf.iterations[Len(wf.iterations)].content
              /\ wf.ret.final_quality_score
                    = wf.iterations[Len(wf.iterations)].quality_score

\* reflexion_workflow returned after max_iterations critiques below the
\* threshold: the content of the last revision was critiqued and returned
C39_Witness ==
    /\ wf.workflow = "reflexion"
    /\ wf.pc = "done"
    /\ wf.max_iterations >= 2
    /\ Len(wf.iterations) = wf.max_iterations
    /\ ~wf.ret.quality_threshold_met
    /\ EditorCalls = wf.max_iterations - 1
    /\ wf.ret.final_content = "revision" \o Str(wf.max_iterations - 1)

====
